---- MODULE Spec2Model ----
(***************************************************************************)
(* Model of harry.email (src/src/harry/email): the EmailMessage lifecycle  *)
(* and the reconciliation of EmailMessageWebhook rows onto messages.       *)
(*                                                                         *)
(* Tables are sequences of rows, a row's primary key being its index.      *)
(* Input domain: a webhook body is a JSON mapping whose RecordType and     *)
(* MessageID, when present, are strings that fit their columns, and whose  *)
(* per-type timestamp field, when present, is a string: either an ISO-8601 *)
(* time with a zone designator or text that is no ISO-8601 time.  Rows     *)
(* that are persisted passed full_clean() when they were written.          *)
(***************************************************************************)
EXTENDS Integers, Sequences, FiniteSets, TLC

VARIABLES msgs, atts, hooks, work, last, now, outbox

vars == <<msgs, atts, hooks, work, last, now, outbox>>

(***************************************************************************)
(* Bounds of the model.                                                    *)
(***************************************************************************)
MaxHooks == 2
MaxOrderHooks == 3
MaxConcHooks == 2
MaxTs == 3
MaxMsgs == 2
MaxCool == 2
MaxPrep == 2
MaxIngest == 2
MaxAtts == 2
MaxDup == 2
MaxNow == 2
MaxLifeHooks == 1
CoolPeriod == 1

\* settings.MAX_SUBJECT_LENGTH, a setting of the deployment (78 in the tests'
\* settings), here in proportion to the short texts of the model
MAX_SUBJECT_LENGTH == 4

\* max_length of EmailMessage.subject (254), in the same proportion: longer
\* than settings.MAX_SUBJECT_LENGTH
SubjectFieldLength == 5

(***************************************************************************)
(* Values.                                                                 *)
(***************************************************************************)
NoMsg == 0
NoTime == -1
NULL == "NULL"

MsgStatus ==
    {"new", "ready", "pending", "sent", "delivered", "opened", "bounced",
     "spam", "canceled", "error"}

HookStatus == {"new", "pending", "processed", "error"}

WEBHOOK_TYPE_TO_EMAIL_STATUS ==
    [Delivery |-> "delivered", Open |-> "opened", Bounce |-> "bounced",
     SpamComplaint |-> "spam"]

WEBHOOK_TYPE_TO_TIMESTAMP ==
    [Delivery |-> "DeliveredAt", Open |-> "ReceivedAt", Bounce |-> "BouncedAt",
     SpamComplaint |-> "BouncedAt"]

(***************************************************************************)
(* Timestamp strings.  A string is a clock reading (hours) with a zone     *)
(* suffix; "garbage" stands for text that is no ISO-8601 time.             *)
(***************************************************************************)
ZoneOffset == [x \in {"+00:00", "+01:00"} |-> IF x = "+01:00" THEN 1 ELSE 0]

Garbage == [clock |-> 0, zone |-> "garbage"]

\* str.replace("Z", "+00:00")
ReplaceZ(ts) == IF ts.zone = "Z" THEN [ts EXCEPT !.zone = "+00:00"] ELSE ts

\* datetime.fromisoformat: an aware instant, or ValueError
FromIsoformat(ts) ==
    IF ts.zone \in DOMAIN ZoneOffset
    THEN [exc |-> "none", t |-> ts.clock - ZoneOffset[ts.zone]]
    ELSE [exc |-> "ValueError", t |-> 0]

\* ts_key = WEBHOOK_TYPE_TO_TIMESTAMP[type]; ts = body[ts_key];
\* ts = ts.replace("Z", "+00:00"); datetime.fromisoformat(ts)
ReadTimestamp(type, body) ==
    IF type \notin DOMAIN WEBHOOK_TYPE_TO_TIMESTAMP
    THEN [exc |-> "KeyError", t |-> 0]
    ELSE IF WEBHOOK_TYPE_TO_TIMESTAMP[type] \notin DOMAIN body
         THEN [exc |-> "KeyError", t |-> 0]
         ELSE FromIsoformat(ReplaceZ(body[WEBHOOK_TYPE_TO_TIMESTAMP[type]]))

(***************************************************************************)
(* Text.  The text fields of a message are sequences of characters; " "    *)
(* and "\n" stand for the whitespace and the line boundaries of Python.    *)
(***************************************************************************)
Whitespace == {" ", "\n"}

LineBreaks == {"\n"}

RECURSIVE LStrip(_)
LStrip(s) == IF s # <<>> /\ Head(s) \in Whitespace THEN LStrip(Tail(s)) ELSE s

RECURSIVE RStrip(_)
RStrip(s) ==
    IF s # <<>> /\ s[Len(s)] \in Whitespace THEN RStrip(SubSeq(s, 1, Len(s) - 1)) ELSE s

\* str.strip()
Strip(s) == RStrip(LStrip(s))

RECURSIVE SplitLines(_)
\* str.splitlines(): the lines without their line boundaries; no last empty
\* line after a final boundary
SplitLines(s) ==
    LET brk == {i \in 1 .. Len(s) : s[i] \in LineBreaks}
    IN  IF s = <<>> THEN <<>>
        ELSE IF brk = {} THEN <<s>>
        ELSE LET i == CHOOSE k \in brk : \A j \in brk : k <= j
             IN  <<SubSeq(s, 1, i - 1)>> \o SplitLines(SubSeq(s, i + 1, Len(s)))

RECURSIVE Join(_)
\* " ".join(lines)
Join(lines) ==
    IF lines = <<>> THEN <<>>
    ELSE IF Len(lines) = 1 THEN lines[1]
    ELSE lines[1] \o <<" ">> \o Join(Tail(lines))

\* utils.trim_string: strip every line, drop the blank ones, join the rest
\* with single spaces, strip
trim_string(field) ==
    LET lines == SplitLines(field)
        sanitized == [i \in 1 .. Len(lines) |-> Strip(lines[i])]
    IN  Strip(Join(SelectSeq(sanitized, LAMBDA l : l # <<>>)))

\* what the validator of an EmailField accepts: one "@" with a local part and
\* a domain around it, and no whitespace
IsEmail(s) ==
    /\ Cardinality({i \in 1 .. Len(s) : s[i] = "@"}) = 1
    /\ Len(s) >= 3 /\ s[1] # "@" /\ s[Len(s)] # "@"
    /\ \A i \in 1 .. Len(s) : s[i] \notin Whitespace

(***************************************************************************)
(* Rows.                                                                   *)
(***************************************************************************)
\* a JSON mapping with one key
Field(k, v) == [x \in {k} |-> v]

\* a local variable: value is computed once and Rest continues with it
Local(value, Rest(_)) == CHOOSE r \in {Rest(v) : v \in {value}} : TRUE

\* the content the tests' factory gives a message
FactoryContent ==
    [created_by |-> "user", template_prefix |-> "core/email/base",
     to_name |-> <<>>, to_email |-> <<"a", "@", "x">>,
     sender_name |-> <<>>, sender_email |-> <<"b", "@", "x">>,
     reply_to_name |-> <<>>, reply_to_email |-> <<>>,
     subject |-> <<>>, template_context |-> <<>>]

\* models.EmailMessage(**kwargs): the fields the services read or write
Message(status, message_id, content) ==
    [status |-> status, message_id |-> message_id, sent_at |-> NoTime,
     error_message |-> ""] @@ content

\* a message with the factory's content
NewMessage(status, message_id) == Message(status, message_id, FactoryContent)

\* the statuses of a message that was dispatched
SentStatuses == {"sent", "delivered", "opened", "bounced", "spam"}

\* a persisted message: one that was dispatched has its sent_at (at time t)
StoredMessage(status, message_id, t) ==
    [NewMessage(status, message_id) EXCEPT
        !.sent_at = IF status \in SentStatuses THEN t ELSE NoTime]

\* models.EmailMessageWebhook, as email_message_webhook_create_from_request
\* creates it: status NEW, type and note blank, no message linked
NewWebhook(body) ==
    [status |-> "new", type |-> "", body |-> body, email_message |-> NoMsg,
     note |-> ""]

(***************************************************************************)
(* email_message_webhook_process, one operator per step of the handler.    *)
(* A call's local state: the in-memory webhook obj, the fetched message    *)
(* (pk em and in-memory row), the pending exception exc, and raised, what  *)
(* the call lets escape to its caller.                                     *)
(***************************************************************************)
IdleCall ==
    [w |-> 0, pc |-> "idle", obj |-> NewWebhook(<<>>), em |-> NoMsg,
     row |-> NewMessage("new", NULL), exc |-> "none", raised |-> "none"]

StartCall(w, obj) == [IdleCall EXCEPT !.w = w, !.pc = "check", !.obj = obj]

Outcome(hs, ms, L) == [hooks |-> hs, msgs |-> ms, loc |-> L]

Raise(hs, ms, L, e) == Outcome(hs, ms, [L EXCEPT !.exc = e, !.pc = "except"])

\* mutant: the first message of the table, whatever its identifier
LookupMessage_First(ms, mid) == IF ms = <<>> THEN NoMsg ELSE 1

\* EmailMessage.objects.filter(message_id=...).first()
LookupMessage(ms, mid) ==
    LET found == {m \in DOMAIN ms : ms[m].message_id = mid}
    IN  IF found = {} THEN NoMsg
        ELSE CHOOSE m \in found : \A o \in found : m <= o

RECURSIVE Insert(_, _)
Insert(s, x) ==
    IF s = <<>> THEN <<x>>
    ELSE IF x < Head(s) THEN <<x>> \o s
         ELSE <<Head(s)>> \o Insert(Tail(s), x)

RECURSIVE Sorted(_)
\* list.sort()
Sorted(s) == IF s = <<>> THEN <<>> ELSE Insert(Sorted(Tail(s)), Head(s))

\* EmailMessageWebhook.objects.filter(email_message=email_message), by pk
LinkedHooks(hs, m) ==
    SelectSeq([i \in 1 .. Len(hs) |-> i], LAMBDA i : hs[i].email_message = m)

\* the loop over the other webhooks, then all_ts.sort(): the sorted instants,
\* or the exception of the first linked row whose timestamp cannot be read
AllTs(hs, m) ==
    LET ws == LinkedHooks(hs, m)
        rd(i) == ReadTimestamp(hs[ws[i]].type, hs[ws[i]].body)
        bad == {i \in 1 .. Len(ws) : rd(i).exc # "none"}
    IN  IF bad # {}
        THEN [exc |-> rd(CHOOSE i \in bad : \A j \in bad : i <= j).exc,
              ts |-> <<>>]
        ELSE [exc |-> "none", ts |-> Sorted([i \in 1 .. Len(ws) |-> rd(i).t])]

\* mutants: the comparison against the earliest recorded instant (the sort
\* forgotten), and a comparison that lets a tie through
IsMostRecent_First(all_ts, ts_dt) == Len(all_ts) = 0 \/ all_ts[1] < ts_dt

IsMostRecent_OrEqual(all_ts, ts_dt) == Len(all_ts) = 0 \/ all_ts[Len(all_ts)] <= ts_dt

\* len(all_ts) == 0 or all_ts[-1] < ts_dt
IsMostRecent(all_ts, ts_dt) == Len(all_ts) = 0 \/ all_ts[Len(all_ts)] < ts_dt

\* mutant: any recorded type counts ("if webhook.type:")
TypeHasStatus_NonBlank(type) == type # ""

\* webhook.type in constants.WEBHOOK_TYPE_TO_EMAIL_STATUS
TypeHasStatus(type) == type \in DOMAIN WEBHOOK_TYPE_TO_EMAIL_STATUS

\* the precondition, then status = PENDING; full_clean(); save()
PhaseCheck(hs, ms, L) ==
    IF L.obj.status # "new" THEN Raise(hs, ms, L, "RuntimeError")
    ELSE LET o == [L.obj EXCEPT !.status = "pending"]
         IN  Outcome([hs EXCEPT ![L.w] = o], ms,
                     [L EXCEPT !.obj = o, !.pc = "type"])

\* if "RecordType" in webhook.body: store the type; full_clean(); save()
PhaseType(hs, ms, L) ==
    IF "RecordType" \in DOMAIN L.obj.body
    THEN LET o == [L.obj EXCEPT !.type = L.obj.body["RecordType"]]
         IN  Outcome([hs EXCEPT ![L.w] = o], ms,
                     [L EXCEPT !.obj = o, !.pc = "find"])
    ELSE Outcome(hs, ms, [L EXCEPT !.pc = "find"])

\* if "MessageID" in webhook.body: fetch the message and link it in memory
PhaseFind(hs, ms, L) ==
    IF "MessageID" \notin DOMAIN L.obj.body
    THEN Outcome(hs, ms, [L EXCEPT !.pc = "finish"])
    ELSE LET m == LookupMessage(ms, L.obj.body["MessageID"])
         IN  IF m = NoMsg THEN Outcome(hs, ms, [L EXCEPT !.pc = "finish"])
             ELSE Outcome(hs, ms,
                          [L EXCEPT !.obj.email_message = m, !.em = m,
                                    !.row = ms[m],
                                    !.pc = IF TypeHasStatus(L.obj.type)
                                           THEN "order" ELSE "finish"])

\* the ordering rule: the timestamps of the rows already linked to the
\* message, this webhook's own timestamp, and the comparison
PhaseOrder(hs, ms, L) ==
    LET all == AllTs(hs, L.em)
        own == ReadTimestamp(L.obj.type, L.obj.body)
    IN  IF all.exc # "none" THEN Raise(hs, ms, L, all.exc)
        ELSE IF own.exc # "none" THEN Raise(hs, ms, L, own.exc)
        ELSE Outcome(hs, ms,
                     [L EXCEPT !.pc = IF IsMostRecent(all.ts, own.t)
                                      THEN "apply" ELSE "finish"])

\* email_message.status = new_status; full_clean(); save()
PhaseApply(hs, ms, L) ==
    LET r == [L.row EXCEPT !.status = WEBHOOK_TYPE_TO_EMAIL_STATUS[L.obj.type]]
    IN  Outcome(hs, [ms EXCEPT ![L.em] = r], [L EXCEPT !.row = r, !.pc = "finish"])

\* webhook.status = PROCESSED; full_clean(); save()
PhaseFinish(hs, ms, L) ==
    LET o == [L.obj EXCEPT !.status = "processed"]
    IN  Outcome([hs EXCEPT ![L.w] = o], ms, [L EXCEPT !.obj = o, !.pc = "done"])

\* mutant: the handler lets the exception go on to the caller
PhaseExcept_Reraise(hs, ms, L) ==
    Outcome(hs, ms, [L EXCEPT !.raised = L.exc, !.exc = "none", !.pc = "done"])

\* except Exception: status = ERROR; note = traceback; full_clean(); save()
PhaseExcept(hs, ms, L) ==
    LET o == [L.obj EXCEPT !.status = "error", !.note = L.exc]
    IN  Outcome([hs EXCEPT ![L.w] = o], ms,
                [L EXCEPT !.obj = o, !.exc = "none", !.pc = "done"])

\* one step of a call
StepCall(hs, ms, L) ==
    CASE L.pc = "check" -> PhaseCheck(hs, ms, L)
      [] L.pc = "type" -> PhaseType(hs, ms, L)
      [] L.pc = "find" -> PhaseFind(hs, ms, L)
      [] L.pc = "order" -> PhaseOrder(hs, ms, L)
      [] L.pc = "apply" -> PhaseApply(hs, ms, L)
      [] L.pc = "finish" -> PhaseFinish(hs, ms, L)
      [] L.pc = "except" -> PhaseExcept(hs, ms, L)
      [] OTHER -> Outcome(hs, ms, L)

RECURSIVE RunCall(_, _, _)
\* a whole call, run without interruption
RunCall(hs, ms, L) ==
    IF L.pc = "done" THEN Outcome(hs, ms, L)
    ELSE LET r == StepCall(hs, ms, L) IN RunCall(r.hooks, r.msgs, r.loc)

\* email_message_webhook_process(email_message_webhook=obj)
email_message_webhook_process(hs, ms, w) == RunCall(hs, ms, StartCall(w, hs[w]))

(***************************************************************************)
(* email_message_send, one operator per step.  A call's local state: the   *)
(* in-memory message obj (the caller's object, as loaded from row m), what *)
(* the collaborators will do (env), the pending exception exc, what the    *)
(* call lets escape (raised), the attachments read for the mail (files),   *)
(* how often it invoked the transport (sent) and the mails the transport   *)
(* accepted (out).                                                         *)
(*                                                                         *)
(* env.fail names the step whose collaborator fails ("none": no step):     *)
(* "render" the text template is missing, "encode" sanitize_address        *)
(* rejects an address, "attach" an attachment cannot be read, "transport"  *)
(* the backend raises.  env.list says whether the backend returns a list   *)
(* (of the identifiers env.ids) or a count.  A missing HTML template is    *)
(* logged and changes nothing.                                             *)
(***************************************************************************)
FailureOf ==
    [render |-> "TemplateDoesNotExist", encode |-> "ValueError",
     attach |-> "OSError", transport |-> "SMTPException"]

StartSend(m, obj, env) ==
    [m |-> m, pc |-> "check", obj |-> obj, env |-> env, exc |-> "none",
     raised |-> "none", files |-> <<>>, sent |-> 0, out |-> <<>>]

\* what the transport is handed: the message and its attachments
Mail(m, files) == [m |-> m, files |-> files]

\* mutant: the attachments by primary key, newest first
AttachmentsOf_NewestFirst(as, m) ==
    LET own == SelectSeq([i \in 1 .. Len(as) |-> i], LAMBDA i : as[i].email_message = m)
    IN  [k \in 1 .. Len(own) |-> as[own[Len(own) + 1 - k]]]

\* email_message.attachments.all(): the rows of the message, ordered by the
\* _order column of order_with_respect_to
AttachmentsOf(as, m) ==
    LET own == {i \in 1 .. Len(as) : as[i].email_message = m}
        before(i) == {j \in own : as[j]._order < as[i]._order}
    IN  [k \in 1 .. Cardinality(own) |->
            as[CHOOSE i \in own : Cardinality(before(i)) = k - 1]]

\* django_email_message.attach(filename, file.read(), mimetype)
Attached(a) == [filename |-> a.filename, content |-> a.file, mimetype |-> a.mimetype]

SendOutcome(ms, S) == [msgs |-> ms, loc |-> S]

\* mutant: a message that was never prepared is sent as well
SendPrecondition_OrNew(status) == status \in {"ready", "new"}

\* email_message.status == constants.EmailMessage.Status.READY
SendPrecondition(status) == status = "ready"

\* mutant: the unique constraint is not checked
MessageIdIsUnique_Unchecked(ms, m, obj) == TRUE

\* validate_unique() of full_clean(): no other row has this message_id
MessageIdIsUnique(ms, m, obj) ==
    obj.message_id = NULL
        \/ \A o \in DOMAIN ms : o # m => ms[o].message_id # obj.message_id

\* mutant: PENDING is assigned and not saved
SendCheck_Unsaved(ms, S) ==
    IF ~SendPrecondition(S.obj.status)
    THEN SendOutcome(ms, [S EXCEPT !.raised = "RuntimeError", !.pc = "done"])
    ELSE SendOutcome(ms, [S EXCEPT !.obj.status = "pending", !.pc = "compose"])

\* the precondition, then status = PENDING; full_clean(); save()
SendCheck(ms, S) ==
    IF ~SendPrecondition(S.obj.status)
    THEN SendOutcome(ms, [S EXCEPT !.raised = "RuntimeError", !.pc = "done"])
    ELSE LET o == [S.obj EXCEPT !.status = "pending"]
         IN  SendOutcome([ms EXCEPT ![S.m] = o], [S EXCEPT !.obj = o, !.pc = "compose"])

\* render_to_string, sanitize_address, EmailMultiAlternatives, and the loop
\* that attaches every attachment of the message
SendCompose(ms, as, S) ==
    IF S.env.fail \in {"render", "encode", "attach"}
    THEN SendOutcome(ms, [S EXCEPT !.exc = FailureOf[S.env.fail], !.pc = "except"])
    ELSE LET own == AttachmentsOf(as, S.m)
         IN  SendOutcome(ms, [S EXCEPT !.files = [k \in 1 .. Len(own) |-> Attached(own[k])],
                                       !.pc = "transport"])

\* mutant: the identifier is saved as soon as the transport returned it
SendTransport_Saved(ms, S) ==
    IF S.env.fail = "transport"
    THEN SendOutcome(ms, [S EXCEPT !.sent = @ + 1, !.exc = FailureOf["transport"],
                                   !.pc = "except"])
    ELSE LET id == IF S.env.list /\ Len(S.env.ids) = 1 THEN S.env.ids[1]
                   ELSE S.obj.message_id
         IN  SendOutcome([ms EXCEPT ![S.m].message_id = id],
                [S EXCEPT !.sent = @ + 1, !.out = Append(@, Mail(S.m, S.files)),
                          !.obj.message_id = id, !.pc = "record"])

\* message_ids = django_email_message.send(); a list of one identifier is
\* kept as email_message.message_id
SendTransport(ms, S) ==
    IF S.env.fail = "transport"
    THEN SendOutcome(ms, [S EXCEPT !.sent = @ + 1, !.exc = FailureOf["transport"],
                                   !.pc = "except"])
    ELSE SendOutcome(ms,
            [S EXCEPT !.sent = @ + 1, !.out = Append(@, Mail(S.m, S.files)),
                      !.obj.message_id =
                          IF S.env.list /\ Len(S.env.ids) = 1 THEN S.env.ids[1] ELSE @,
                      !.pc = "record"])

\* else: status = SENT; sent_at = timezone.now(); full_clean(); save()
SendRecord(ms, S, t) ==
    LET o == [S.obj EXCEPT !.status = "sent", !.sent_at = t]
    IN  IF MessageIdIsUnique(ms, S.m, o)
        THEN SendOutcome([ms EXCEPT ![S.m] = o], [S EXCEPT !.obj = o, !.pc = "done"])
        ELSE SendOutcome(ms, [S EXCEPT !.obj = o, !.raised = "ValidationError",
                                       !.pc = "done"])

\* except Exception as e: status = ERROR; error_message = repr(e);
\* full_clean(); save()
SendExcept(ms, S) ==
    LET o == [S.obj EXCEPT !.status = "error", !.error_message = S.exc]
    IN  SendOutcome([ms EXCEPT ![S.m] = o],
                    [S EXCEPT !.obj = o, !.exc = "none", !.pc = "done"])

\* one step of a call
StepSend(ms, as, S, t) ==
    CASE S.pc = "check" -> SendCheck(ms, S)
      [] S.pc = "compose" -> SendCompose(ms, as, S)
      [] S.pc = "transport" -> SendTransport(ms, S)
      [] S.pc = "record" -> SendRecord(ms, S, t)
      [] S.pc = "except" -> SendExcept(ms, S)
      [] OTHER -> SendOutcome(ms, S)

RECURSIVE RunSend(_, _, _, _)
\* a whole call, run without interruption
RunSend(ms, as, S, t) ==
    IF S.pc = "done" THEN SendOutcome(ms, S)
    ELSE LET r == StepSend(ms, as, S, t) IN RunSend(r.msgs, as, r.loc, t)

\* email_message_send(email_message=obj), obj being row m as the caller
\* loaded it
email_message_send(ms, as, m, env, t) == RunSend(ms, as, StartSend(m, ms[m], env), t)

\* clean_fields() of full_clean(): the e-mail fields hold addresses (the
\* reply-to may be blank), the subject fits its column and template_prefix
\* is not blank
FieldsValid(o) ==
    /\ IsEmail(o.sender_email)
    /\ IsEmail(o.to_email)
    /\ o.reply_to_email = <<>> \/ IsEmail(o.reply_to_email)
    /\ Len(o.subject) <= SubjectFieldLength
    /\ o.template_prefix # ""

\* full_clean() does not raise ValidationError
FullCleanPasses(ms, m, o) == FieldsValid(o) /\ MessageIdIsUnique(ms, m, o)

\* save(): an insert for an object without primary key (m = NoMsg), else an
\* update of all fields of row m
Save(ms, m, o) ==
    IF m = NoMsg THEN [msgs |-> Append(ms, o), pk |-> Len(ms) + 1]
    ELSE [msgs |-> [ms EXCEPT ![m] = o], pk |-> m]

\* email_message_create(save=True, **kwargs), o being EmailMessage(**kwargs):
\* full_clean(), then save()
email_message_create(ms, o) ==
    IF FullCleanPasses(ms, NoMsg, o)
    THEN [msgs |-> Append(ms, o), raised |-> "none"]
    ELSE [msgs |-> ms, raised |-> "ValidationError"]

(***************************************************************************)
(* email_message_prepare.  env.subject is the subject template of the      *)
(* message's template_prefix: whether it exists and the text it renders.   *)
(***************************************************************************)
DEFAULT_FROM_EMAIL == <<"b", "@", "x">>

DEFAULT_FROM_NAME == <<"B">>

\* the presentation defaults taken from settings.SITE_CONFIG
DefaultContext ==
    [logo_url |-> "", logo_url_link |-> "", contact_email |-> "bob@example.com",
     site_name |-> "Example App", company |-> "Bob Smith PLLC",
     company_address |-> "123 Main Street",
     company_city_state_zip |-> "Washington, DC 20006"]

Ellipsis == <<".", ".", ".">>

\* x or y, for strings
Or(x, y) == IF x # <<>> THEN x ELSE y

\* the result of a call: the table, the primary key and the fields of the
\* caller's object, and the exception that reaches the caller
PrepareOutcome(ms, m, obj, raised) ==
    [msgs |-> ms, pk |-> m, obj |-> obj, raised |-> raised]

\* mutant: a message that is READY already is prepared again
PrepareGuard_OrReady(status) == status \in {"new", "ready"}

\* mutant: no precondition
PrepareGuard_Always(status) == TRUE

\* e.status == constants.EmailMessage.Status.NEW
PrepareGuard(status) == status = "new"

\* the defaults of the sender and the trimming of the address fields
Normalized(e) ==
    [e EXCEPT !.sender_email = trim_string(Or(@, DEFAULT_FROM_EMAIL)),
              !.sender_name = trim_string(Or(@, DEFAULT_FROM_NAME)),
              !.reply_to_email = trim_string(@),
              !.reply_to_name = trim_string(@),
              !.to_name = trim_string(@),
              !.to_email = trim_string(@)]

\* mutant: the name is not looked at
ReplyToInconsistent_Never(e) == FALSE

\* e.reply_to_name and not e.reply_to_email
ReplyToInconsistent(e) == e.reply_to_name # <<>> /\ e.reply_to_email = <<>>

\* mutant: the subject is cut at the maximum, without the ellipsis
Truncated_Cut(subject) ==
    IF Len(subject) > MAX_SUBJECT_LENGTH
    THEN SubSeq(subject, 1, MAX_SUBJECT_LENGTH)
    ELSE subject

\* the truncation of a subject longer than settings.MAX_SUBJECT_LENGTH
Truncated(subject) ==
    IF Len(subject) > MAX_SUBJECT_LENGTH
    THEN SubSeq(subject, 1, MAX_SUBJECT_LENGTH - 3) \o Ellipsis
    ELSE subject

\* the defaults merged with the context of the message, the subject
\* resolved, status READY
Resolved(e, env) ==
    LET template_context == e.template_context @@ DefaultContext
        subject == Truncated(trim_string(IF e.subject = <<>> THEN env.subject.text
                                         ELSE e.subject))
    IN  [e EXCEPT !.template_context = Field("subject", subject) @@ template_context,
                  !.subject = subject,
                  !.status = "ready"]

\* email_message_prepare(email_message=obj), obj being unsaved (m = NoMsg)
\* or row m as the caller loaded it
email_message_prepare(ms, m, obj, env) ==
    LET AfterTrim(e) ==
            LET s == Save(ms, m, e)
                failed == [e EXCEPT !.status = "error"]
                ready == Resolved(e, env)
            IN  IF ~FullCleanPasses(ms, m, e)
                THEN PrepareOutcome(ms, m, e, "ValidationError")
                ELSE IF ReplyToInconsistent(e)
                THEN PrepareOutcome(Save(s.msgs, s.pk, failed).msgs, s.pk, failed,
                                    "RuntimeError")
                ELSE IF e.subject = <<>> /\ ~env.subject.exists
                THEN PrepareOutcome(s.msgs, s.pk, e, "TemplateDoesNotExist")
                ELSE PrepareOutcome(Save(s.msgs, s.pk, ready).msgs, s.pk, ready, "none")
    IN  IF ~PrepareGuard(obj.status) THEN PrepareOutcome(ms, m, obj, "RuntimeError")
        ELSE Local(Normalized(obj), AfterTrim)

(***************************************************************************)
(* email_message_check_cooling_down and email_message_queue.  Times are    *)
(* whole numbers of a time unit, t being timezone.now().                   *)
(***************************************************************************)
Scopes == {"created_by", "template_prefix", "to"}

\* mutant: a message sent exactly one period ago is within the period
SentWithin_OrAt(sent_at, t, period) == sent_at # NoTime /\ sent_at >= t - period

\* sent_at__gt=timezone.now() - cooldown_period; a null sent_at matches no
\* comparison
SentWithin(sent_at, t, period) == sent_at # NoTime /\ sent_at > t - period

\* mutant: the filter is applied for the scopes that were left out
ScopeApplies_Absent(scope, scopes) == scope \notin scopes

\* "created_by" in scopes, and likewise for the other scopes
ScopeApplies(scope, scopes) == scope \in scopes

\* email_messages.filter(<field>=e.<field>) if the scope is in scopes
Narrowed(ms, rows, e, scope, field, scopes) ==
    IF ScopeApplies(scope, scopes) THEN {m \in rows : ms[m][field] = e[field]}
    ELSE rows

\* mutant: only the messages whose status is SENT are counted
email_message_check_cooling_down_ByStatus(ms, e, period, allowed, scopes, t) ==
    LET recent == {m \in DOMAIN ms : /\ ms[m].status = "sent"
                                     /\ SentWithin(ms[m].sent_at, t, period)}
        by_user == Narrowed(ms, recent, e, "created_by", "created_by", scopes)
        by_template == Narrowed(ms, by_user, e, "template_prefix", "template_prefix", scopes)
        by_to == Narrowed(ms, by_template, e, "to", "to_email", scopes)
    IN  Cardinality(by_to) >= allowed

\* mutant: the threshold itself is let through
email_message_check_cooling_down_Above(ms, e, period, allowed, scopes, t) ==
    LET recent == {m \in DOMAIN ms : SentWithin(ms[m].sent_at, t, period)}
        by_user == Narrowed(ms, recent, e, "created_by", "created_by", scopes)
        by_template == Narrowed(ms, by_user, e, "template_prefix", "template_prefix", scopes)
        by_to == Narrowed(ms, by_template, e, "to", "to_email", scopes)
    IN  Cardinality(by_to) > allowed

\* email_message_check_cooling_down(email_message=e, period, allowed, scopes)
email_message_check_cooling_down(ms, e, period, allowed, scopes, t) ==
    LET recent == {m \in DOMAIN ms : SentWithin(ms[m].sent_at, t, period)}
        by_user == Narrowed(ms, recent, e, "created_by", "created_by", scopes)
        by_template == Narrowed(ms, by_user, e, "template_prefix", "template_prefix", scopes)
        by_to == Narrowed(ms, by_template, e, "to", "to_email", scopes)
    IN  Cardinality(by_to) >= allowed

\* the result of a call: the table, the primary key of the message, the
\* exception that reaches the caller, the value returned, how often the
\* transport was invoked and the mails it accepted
QueueOutcome(ms, m, raised, ret, sent, out) ==
    [msgs |-> ms, pk |-> m, raised |-> raised, ret |-> ret, sent |-> sent, out |-> out]

\* if email_message_check_cooling_down(...)
Suppressed(cooling) == cooling

\* email_message_queue(email_message=obj, cooldown_period, cooldown_allowed,
\* scopes), obj being unsaved (m = NoMsg) or row m as the caller loaded it
email_message_queue(ms, as, m, obj, period, allowed, scopes, env, t) ==
    LET prepared == IF obj.status # "ready" THEN email_message_prepare(ms, m, obj, env)
                    ELSE PrepareOutcome(ms, m, obj, "none")
        AfterCheck(p) ==
            Local(RunSend(p.msgs, as, StartSend(p.pk, p.obj, env), t),
                  LAMBDA s : QueueOutcome(s.msgs, p.pk, s.loc.raised,
                                          IF s.loc.raised = "none" THEN "True" ELSE "none",
                                          s.loc.sent, s.loc.out))
        AfterPrepare(p) ==
            LET canceled == [p.obj EXCEPT !.status = "canceled",
                                          !.error_message = "Cooling down"]
            IN  IF p.raised # "none"
                THEN QueueOutcome(p.msgs, p.pk, p.raised, "none", 0, <<>>)
                ELSE IF Suppressed(email_message_check_cooling_down(p.msgs, p.obj, period,
                                                                    allowed, scopes, t))
                THEN QueueOutcome(Save(p.msgs, p.pk, canceled).msgs, p.pk, "none", "False",
                                  0, <<>>)
                ELSE AfterCheck(p)
    IN  Local(prepared, AfterPrepare)

(***************************************************************************)
(* email_message_attach and email_message_duplicate.  A filename is its    *)
(* stem and its extension; file is the content of the attachment.          *)
(***************************************************************************)
\* the types the mimetypes module knows, by extension
TypesMap ==
    [pdf |-> "application/pdf", json |-> "application/json", png |-> "image/png"]

\* mimetypes.guess_type(filename)[0]: None for an extension it does not know
guess_type(filename) ==
    IF filename.ext \in DOMAIN TypesMap THEN TypesMap[filename.ext] ELSE NULL

\* the _order a new attachment of message m gets (order_with_respect_to):
\* one more than the greatest of its siblings, 0 for the first
OrderValue(as, m) ==
    LET own == {i \in 1 .. Len(as) : as[i].email_message = m}
    IN  IF own = {} THEN 0
        ELSE 1 + as[CHOOSE i \in own : \A j \in own : as[j]._order <= as[i]._order]._order

\* mutant: every declared type is accepted
MimeMatches_Always(filename, mimetype) == TRUE

\* mimetype == mimetypes.guess_type(filename)[0]
MimeMatches(filename, mimetype) == mimetype = guess_type(filename)

\* email_message_attach(email_message=obj, file, filename, mimetype), obj
\* being row m as the caller loaded it
email_message_attach(as, m, obj, file, filename, mimetype) ==
    IF obj.status # "ready" THEN [atts |-> as, raised |-> "RuntimeError"]
    ELSE IF ~MimeMatches(filename, mimetype) THEN [atts |-> as, raised |-> "ValueError"]
    ELSE [atts |-> Append(as, [email_message |-> m, filename |-> filename,
                               mimetype |-> mimetype, file |-> file,
                               _order |-> OrderValue(as, m)]),
          raised |-> "none"]

RECURSIVE AttachAll(_, _, _, _)
\* for attachment in original.attachments.all(): email_message_attach(...),
\* up to the first call that raises
AttachAll(as, m, obj, todo) ==
    IF todo = <<>> THEN [atts |-> as, raised |-> "none"]
    ELSE LET r == email_message_attach(as, m, obj, Head(todo).file, Head(todo).filename,
                                       Head(todo).mimetype)
         IN  IF r.raised # "none" THEN r ELSE AttachAll(r.atts, m, obj, Tail(todo))

\* mutant: the copy keeps what the original recorded of its dispatch
Cleared_Nothing(row) == [row EXCEPT !.status = "new"]

\* status = NEW; error_message = ""; message_id = None; sent_at = None
Cleared(row) ==
    [row EXCEPT !.status = "new", !.error_message = "", !.message_id = NULL,
                !.sent_at = NoTime]

\* email_message_duplicate(original=row m)
email_message_duplicate(ms, as, m, env) ==
    LET duplicate == Cleared(ms[m])
        s == Save(ms, NoMsg, duplicate)
        WithAttachments(p) ==
            Local(AttachAll(as, p.pk, p.obj, AttachmentsOf(as, m)),
                  LAMBDA a : [msgs |-> p.msgs, atts |-> a.atts, raised |-> a.raised])
        AfterPrepare(p) ==
            IF p.raised # "none" THEN [msgs |-> p.msgs, atts |-> as, raised |-> p.raised]
            ELSE WithAttachments(p)
    IN  IF ~FullCleanPasses(ms, NoMsg, duplicate)
        THEN [msgs |-> ms, atts |-> as, raised |-> "ValidationError"]
        ELSE Local(email_message_prepare(s.msgs, s.pk, duplicate, env), AfterPrepare)

(***************************************************************************)
(* Inputs.                                                                 *)
(***************************************************************************)
KnownTypes == DOMAIN WEBHOOK_TYPE_TO_EMAIL_STATUS

\* the record types of the mixed payloads: two known ones, whose timestamps
\* live under different keys, and the tests' unknown "some_type"
MixedTypes == {"Delivery", "Bounce", "some_type"}

\* "other-id" and "id-abc123" are the identifiers of messages 1 and 2;
\* no message has "id-none"
MessageIds == {"id-abc123", "id-none"}

\* the clock readings 1 .. n in UTC ("Z"), and one reading with an offset:
\* 02:00+01:00 is the instant 01:00Z
OffsetTs == [clock |-> 2, zone |-> "+01:00"]

TsStrings(n) == [clock : 1 .. n, zone : {"Z"}] \cup {OffsetTs}

\* a payload with RecordType, MessageID and the timestamp of its type
KnownBody(rt, mid, ts) ==
    Field("RecordType", rt) @@ Field("MessageID", mid)
        @@ Field(WEBHOOK_TYPE_TO_TIMESTAMP[rt], ts)

\* payloads of known type that carry the identifier of message 1 and a
\* well-formed timestamp
OrderBodies ==
    {KnownBody(rt, "id-abc123", ts) : rt \in KnownTypes, ts \in TsStrings(MaxTs)}

\* payloads with or without RecordType, MessageID and timestamp, the
\* timestamp well-formed or not
MixedBodies ==
    LET stamps == {[clock |-> 1, zone |-> "Z"], [clock |-> 3, zone |-> "+01:00"], Garbage}
        withType ==
            {Field("RecordType", rt) : rt \in MixedTypes}
                \cup {Field("RecordType", rt) @@ Field(WEBHOOK_TYPE_TO_TIMESTAMP[rt], ts) :
                        rt \in MixedTypes \cap KnownTypes, ts \in stamps}
                \cup {<<>>}
    IN  withType \cup {b @@ Field("MessageID", mid) : b \in withType, mid \in MessageIds}

(***************************************************************************)
(* State.                                                                  *)
(*   msgs   the EmailMessage table                                         *)
(*   atts   the EmailMessageAttachment table                               *)
(*   hooks  the EmailMessageWebhook table                                  *)
(*   work   the calls of email_message_webhook_process in flight           *)
(*   last   the last call that returned: the operation, the exception it   *)
(*          let escape, how often it invoked the transport, and for a send *)
(*          the message it was called on                                   *)
(*   now    timezone.now()                                                 *)
(*   outbox the mails the transport accepted, in order: the message and    *)
(*          the attachments handed over with it                            *)
(***************************************************************************)
Workers == {1, 2}

NoCall == [op |-> "none", raised |-> "none", sent |-> 0, on |-> NoMsg, ret |-> "none"]

Returned(op, raised, sent) == [NoCall EXCEPT !.op = op, !.raised = raised, !.sent = sent]

ReturnedOn(m, raised, sent) == [Returned("send", raised, sent) EXCEPT !.on = m]

\* a call of operation op on message m returned ret or raised
Result(op, m, raised, ret, sent) ==
    [op |-> op, raised |-> raised, sent |-> sent, on |-> m, ret |-> ret]

AllIdle == \A p \in Workers : work[p].pc = "idle"

NewCount == Cardinality({w \in DOMAIN hooks : hooks[w].status = "new"})

InitCommon ==
    /\ atts = <<>>
    /\ hooks = <<>>
    /\ work = [p \in Workers |-> IdleCall]
    /\ last = NoCall
    /\ now = 0
    /\ outbox = <<>>

Init ==
    /\ InitCommon
    /\ \E s2 \in {"new", "sent"} :
          msgs = <<StoredMessage("sent", "other-id", 0), StoredMessage(s2, "id-abc123", 0)>>

InitOrder ==
    /\ InitCommon
    /\ \E s1 \in {"new", "sent"} : msgs = <<StoredMessage(s1, "id-abc123", 0)>>

\* email_message_webhook_create_from_request with a JSON mapping as body.
\* A row that was not processed yet is linked to no message and no call
\* reads it, so the order of the ingest calls among themselves changes
\* nothing: maxNew says how many rows may wait to be processed.
Ingest(b, cap, maxNew) ==
    /\ Len(hooks) < cap
    /\ NewCount < maxNew
    /\ hooks' = Append(hooks, NewWebhook(b))
    /\ last' = Returned("ingest", "none", 0)
    /\ UNCHANGED <<msgs, atts, work, now, outbox>>

\* email_message_webhook_process, the calls one at a time
Process(w) ==
    /\ AllIdle
    /\ LET r == email_message_webhook_process(hooks, msgs, w)
       IN  /\ hooks' = r.hooks
           /\ msgs' = r.msgs
           /\ last' = Returned("process", r.loc.raised, 0)
    /\ UNCHANGED <<atts, work, now, outbox>>

Next ==
    \/ \E b \in MixedBodies : Ingest(b, MaxHooks, 1)
    \/ \E w \in DOMAIN hooks : Process(w)

Spec == Init /\ [][Next]_vars

\* every event is handed to email_message_webhook_process once
NextOrder ==
    \/ \E b \in OrderBodies : Ingest(b, MaxOrderHooks, 1)
    \/ \E w \in DOMAIN hooks : hooks[w].status = "new" /\ Process(w)

SpecOrder == InitOrder /\ [][NextOrder]_vars

(***************************************************************************)
(* Dispatch: messages are created and sent, the calls one at a time.       *)
(***************************************************************************)
\* identifiers the transport may return: one that message 1 may hold already
ProviderIds == {"id-abc123", "id-xyz456"}

SendEnvs ==
    [fail : DOMAIN FailureOf, list : {FALSE}, ids : {<<>>}]
        \cup [fail : {"none"}, list : {FALSE}, ids : {<<>>}]
        \cup [fail : {"none"}, list : {TRUE},
              ids : {<<>>} \cup {<<x>> : x \in ProviderIds}
                        \cup {<<x, y>> : x, y \in ProviderIds}]

InitSend ==
    /\ InitCommon
    /\ msgs = <<>>

Create(status, message_id) ==
    /\ Len(msgs) < MaxMsgs
    /\ LET r == email_message_create(msgs, StoredMessage(status, message_id, now))
       IN  /\ msgs' = r.msgs
           /\ last' = Returned("create", r.raised, 0)
    /\ UNCHANGED <<atts, hooks, work, now, outbox>>

Send(m, env) ==
    /\ LET r == email_message_send(msgs, atts, m, env, now)
       IN  /\ msgs' = r.msgs
           /\ outbox' = outbox \o r.loc.out
           /\ last' = ReturnedOn(m, r.loc.raised, r.loc.sent)
    /\ UNCHANGED <<atts, hooks, work, now>>

NextSend ==
    \/ \E st \in MsgStatus : \E mid \in {NULL, "id-abc123"} : Create(st, mid)
    \/ \E m \in DOMAIN msgs : \E env \in SendEnvs : Send(m, env)

SpecSend == InitSend /\ [][NextSend]_vars

(***************************************************************************)
(* Calls of email_message_webhook_process that run at the same time, each  *)
(* in its own request or task.  The handler takes no lock and opens no     *)
(* transaction, so their queries and saves interleave freely.              *)
(***************************************************************************)
InitConc ==
    /\ InitCommon
    /\ msgs = <<StoredMessage("sent", "id-abc123", 0)>>

InFlight(w) == \E p \in Workers : work[p].pc # "idle" /\ work[p].w = w

\* worker p is handed the NEW event w, which no other call works on
Begin(p, w) ==
    /\ work[p].pc = "idle"
    /\ hooks[w].status = "new"
    /\ ~InFlight(w)
    /\ work' = [work EXCEPT ![p] = StartCall(w, hooks[w])]
    /\ UNCHANGED <<msgs, atts, hooks, last, now, outbox>>

\* worker p runs the next step of its call, and returns after the last
Advance(p) ==
    /\ work[p].pc # "idle"
    /\ LET r == StepCall(hooks, msgs, work[p])
       IN  /\ hooks' = r.hooks
           /\ msgs' = r.msgs
           /\ IF r.loc.pc = "done"
              THEN /\ work' = [work EXCEPT ![p] = IdleCall]
                   /\ last' = Returned("process", r.loc.raised, 0)
              ELSE /\ work' = [work EXCEPT ![p] = r.loc]
                   /\ last' = last
    /\ UNCHANGED <<atts, now, outbox>>

NextConc ==
    \/ \E b \in OrderBodies : Ingest(b, MaxConcHooks, MaxConcHooks)
    \/ \E p \in Workers : \E w \in DOMAIN hooks : Begin(p, w)
    \/ \E p \in Workers : Advance(p)

SpecConc == InitConc /\ [][NextConc]_vars

(***************************************************************************)
(* Cooldown: messages are queued one at a time while time passes.  The     *)
(* messages differ in the three fields the scopes compare.                 *)
(***************************************************************************)
\* the default threshold of email_message_queue
cooldown_allowed == 1

Alice == <<"a", "@", "x">>

Carol == <<"c", "@", "x">>

CoolContent(user, prefix, to) ==
    [FactoryContent EXCEPT !.created_by = user, !.template_prefix = prefix,
                           !.to_email = to, !.subject = <<"s">>]

\* one content, and three more that differ from it in exactly one field
CoolContents ==
    {CoolContent("user", "core/email/password_reset", Alice),
     CoolContent("user2", "core/email/password_reset", Alice),
     CoolContent("user", "account/email/password_reset_key", Alice),
     CoolContent("user", "core/email/password_reset", Carol)}

NoSubject == [exists |-> FALSE, text |-> <<>>]

\* the collaborators of a queue call: the transport returns a count, or
\* fails
CoolEnvs ==
    {[fail |-> "none", list |-> FALSE, ids |-> <<>>, subject |-> NoSubject],
     [fail |-> "transport", list |-> FALSE, ids |-> <<>>, subject |-> NoSubject]}

InitCool ==
    /\ InitCommon
    /\ msgs = <<>>

\* email_message_queue on the caller's object: a new object that was not
\* saved (m = NoMsg), or row m as the caller loaded it
Queue(m, obj, period, allowed, scopes, env) ==
    /\ LET r == email_message_queue(msgs, atts, m, obj, period, allowed, scopes, env, now)
       IN  /\ msgs' = r.msgs
           /\ outbox' = outbox \o r.out
           /\ last' = Result("queue", r.pk, r.raised, r.ret, r.sent)
    /\ UNCHANGED <<atts, hooks, work, now>>

\* time passes
Tick(bound) ==
    /\ now < bound
    /\ now' = now + 1
    /\ UNCHANGED <<msgs, atts, hooks, work, last, outbox>>

NextCool ==
    \/ \E c \in CoolContents : \E scopes \in SUBSET Scopes : \E env \in CoolEnvs :
          /\ Len(msgs) < MaxCool
          /\ Queue(NoMsg, Message("new", NULL, c), CoolPeriod, cooldown_allowed, scopes, env)
    \/ Tick(MaxNow)

SpecCool == InitCool /\ [][NextCool]_vars

\* the same calls with a transport that may also return the list of one
\* identifier, the same for every message
QueueEnvs ==
    CoolEnvs \cup {[fail |-> "none", list |-> TRUE, ids |-> <<"id-abc123">>,
                    subject |-> NoSubject]}

NextQueue ==
    \/ \E c \in CoolContents : \E scopes \in SUBSET Scopes : \E env \in QueueEnvs :
          /\ Len(msgs) < MaxCool
          /\ Queue(NoMsg, Message("new", NULL, c), CoolPeriod, cooldown_allowed, scopes, env)
    \/ Tick(MaxNow)

SpecQueue == InitCool /\ [][NextQueue]_vars

(***************************************************************************)
(* Ingest of request bodies.  A body is text: either no JSON at all, or    *)
(* the text of a JSON value of some kind, value being its members when it  *)
(* is an object.  A header has a value that is a string or something else. *)
(***************************************************************************)
NotJson == [json |-> FALSE, kind |-> "none", value |-> <<>>]

Json(kind, value) == [json |-> TRUE, kind |-> kind, value |-> value]

JsonKinds == {"object", "array", "string", "number", "null"}

\* the mappings that are ingested: the empty one, mappings with fields the
\* handler does not know, and events of message 1
IngestBodies ==
    {<<>>, Field("RecordType", "some_type"), Field("Foo", "bar"),
     Field("RecordType", "Delivery") @@ Field("MessageID", "id-abc123")}
        \cup {KnownBody("Delivery", "id-abc123", ts) : ts \in TsStrings(1)}

RawBodies ==
    {NotJson} \cup {Json(kind, <<>>) : kind \in JsonKinds \ {"object"}}
        \cup {Json("object", b) : b \in IngestBodies}

HeaderSets ==
    {<<>>,
     Field("X-Some-Header", [str |-> TRUE, text |-> "id-xyz456"]),
     Field("X-Some-Header", [str |-> TRUE, text |-> "id-xyz456"])
        @@ Field("X-Count", [str |-> FALSE, text |-> ""])}

\* json.loads(body)
json_loads(body) ==
    IF body.json THEN [raised |-> "none", value |-> body]
    ELSE [raised |-> "JSONDecodeError", value |-> body]

\* utils.validate_request_body_json(body=body), no keys being required
validate_request_body_json(body) ==
    LET r == json_loads(body)
    IN  IF r.raised = "JSONDecodeError" THEN [raised |-> "ValueError", body_json |-> body]
        ELSE [raised |-> "none", body_json |-> r.value]

\* mutant: a list passes for a mapping
IsDict_OrList(payload) == payload.kind \in {"object", "array"}

\* isinstance(payload, dict)
IsDict(payload) == payload.kind = "object"

\* the headers whose value is a string
headers_processed(headers) ==
    [key \in {k \in DOMAIN headers : headers[k].str} |-> headers[key].text]

\* email_message_webhook_create_from_request(body=body, headers=headers)
email_message_webhook_create_from_request(hs, body, headers) ==
    LET v == validate_request_body_json(body)
    IN  IF v.raised # "none" THEN [hooks |-> hs, raised |-> v.raised]
        ELSE IF ~IsDict(v.body_json) THEN [hooks |-> hs, raised |-> "ValueError"]
        ELSE [hooks |-> Append(hs, NewWebhook(v.body_json.value)
                                      @@ Field("headers", headers_processed(headers))),
              raised |-> "none"]

\* a request arrives
Receive(body, headers) ==
    /\ Len(hooks) < MaxIngest
    /\ LET r == email_message_webhook_create_from_request(hooks, body, headers)
       IN  /\ hooks' = r.hooks
           /\ last' = Returned("ingest", r.raised, 0)
    /\ UNCHANGED <<msgs, atts, work, now, outbox>>

InitIngest ==
    /\ InitCommon
    /\ msgs = <<StoredMessage("sent", "id-abc123", 0)>>

NextIngest ==
    \/ \E body \in RawBodies : \E headers \in HeaderSets : Receive(body, headers)
    \/ \E w \in DOMAIN hooks : hooks[w].status = "new" /\ Process(w)

SpecIngest == InitIngest /\ [][NextIngest]_vars

(***************************************************************************)
(* Preparation: messages are created, prepared and queued, as new objects  *)
(* or as stored rows the caller loaded.                                    *)
(***************************************************************************)
Plain == [FactoryContent EXCEPT !.subject = <<"s">>]

\* a name to reply to and no address
ReplyNameOnly == [Plain EXCEPT !.reply_to_name = <<"R">>]

\* whitespace around the address, whitespace for the fields of the reply-to,
\* no sender, no subject
Untidy ==
    [FactoryContent EXCEPT !.to_email = <<" ", "a", "@", "x", "\n">>,
                           !.sender_email = <<>>,
                           !.reply_to_name = <<" ">>, !.reply_to_email = <<"\n">>]

\* a name and an address to reply to, and a subject one character longer
\* than settings.MAX_SUBJECT_LENGTH
ReplyFull ==
    [Plain EXCEPT !.reply_to_name = <<"R">>, !.reply_to_email = <<"r", "@", "x">>,
                  !.subject = [i \in 1 .. MAX_SUBJECT_LENGTH + 1 |-> "s"]]

\* a name to reply to, no address, and a recipient that is no address
BadTo == [ReplyNameOnly EXCEPT !.to_email = <<"a">>]

Drafts == {Message("new", NULL, c) : c \in {Plain, ReplyNameOnly, Untidy, ReplyFull, BadTo}}

\* the subject template: missing, or rendering a line
SubjectTemplates == {NoSubject, [exists |-> TRUE, text |-> <<"s", "\n">>]}

PrepEnv(subject, fail) ==
    [fail |-> fail, list |-> FALSE, ids |-> <<>>, subject |-> subject]

\* EmailMessage.objects.create(**kwargs) after full_clean, as the factory
\* does with save=True
Store(obj) ==
    /\ LET r == email_message_create(msgs, obj)
       IN  /\ msgs' = r.msgs
           /\ last' = Returned("create", r.raised, 0)
    /\ UNCHANGED <<atts, hooks, work, now, outbox>>

\* email_message_prepare on the caller's object: a new object that was not
\* saved (m = NoMsg), or row m as the caller loaded it
Prepare(m, obj, env) ==
    /\ LET r == email_message_prepare(msgs, m, obj, env)
       IN  /\ msgs' = r.msgs
           /\ last' = Result("prepare", r.pk, r.raised, "none", 0)
    /\ UNCHANGED <<atts, hooks, work, now, outbox>>

\* prepare, directly or through queue with its defaults
PrepareCall(m, obj) ==
    \/ \E subject \in SubjectTemplates : Prepare(m, obj, PrepEnv(subject, "none"))
    \/ \E subject \in SubjectTemplates : \E fail \in {"none", "transport"} :
          Queue(m, obj, CoolPeriod, cooldown_allowed, Scopes, PrepEnv(subject, fail))

NextPrep ==
    \/ \E d \in Drafts : Len(msgs) < MaxPrep /\ Store(d)
    \/ \E d \in Drafts : Len(msgs) < MaxPrep /\ PrepareCall(NoMsg, d)
    \/ \E m \in DOMAIN msgs : PrepareCall(m, msgs[m])

SpecPrep == InitSend /\ [][NextPrep]_vars

\* prepare on stored messages of every status
NextStatus ==
    \/ \E status \in MsgStatus : Len(msgs) < MaxPrep /\ Store(StoredMessage(status, NULL, now))
    \/ \E m \in DOMAIN msgs : \E subject \in SubjectTemplates :
          Prepare(m, msgs[m], PrepEnv(subject, "none"))

SpecStatus == InitSend /\ [][NextStatus]_vars

(***************************************************************************)
(* Attachments: files are attached to two stored messages, one READY and   *)
(* one NEW, which are prepared and sent.                                   *)
(***************************************************************************)
\* a message as a successful email_message_prepare leaves it
ReadyMessage(content) ==
    email_message_prepare(<<>>, NoMsg, Message("new", NULL, content),
                          PrepEnv(NoSubject, "none")).obj

\* the files that are attached, by name; the last has an extension the
\* mimetypes module does not know
Uploads ==
    {[filename |-> [stem |-> "report", ext |-> "pdf"], file |-> "%PDF"],
     [filename |-> [stem |-> "data", ext |-> "json"], file |-> "{}"],
     [filename |-> [stem |-> "notes", ext |-> "xyz"], file |-> "{}"]}

MimeTypes == {"application/pdf", "application/json"}

\* the collaborators of a send: all work, or reading an attachment fails,
\* or the transport fails
AttachEnvs ==
    {[fail |-> f, list |-> FALSE, ids |-> <<>>, subject |-> NoSubject] :
        f \in {"none", "attach", "transport"}}

InitAttach ==
    /\ InitCommon
    /\ msgs = <<ReadyMessage(Plain), Message("new", NULL, Plain)>>

\* email_message_attach on row m as the caller loaded it
Attach(m, file, filename, mimetype) ==
    /\ Len(atts) < MaxAtts
    /\ LET r == email_message_attach(atts, m, msgs[m], file, filename, mimetype)
       IN  /\ atts' = r.atts
           /\ last' = Result("attach", m, r.raised, "none", 0)
    /\ UNCHANGED <<msgs, hooks, work, now, outbox>>

NextAttach ==
    \/ \E m \in DOMAIN msgs : \E u \in Uploads : \E mimetype \in MimeTypes :
          Attach(m, u.file, u.filename, mimetype)
    \/ \E m \in DOMAIN msgs : Prepare(m, msgs[m], PrepEnv(NoSubject, "none"))
    \/ \E m \in DOMAIN msgs : \E env \in AttachEnvs : Send(m, env)

SpecAttach == InitAttach /\ [][NextAttach]_vars

(***************************************************************************)
(* Duplication: messages are stored, prepared, given attachments, sent and *)
(* duplicated.                                                             *)
(***************************************************************************)
\* the collaborators of a send: the transport returns the list of one
\* identifier, or fails
DupEnvs ==
    {[fail |-> "none", list |-> TRUE, ids |-> <<"id-abc123">>, subject |-> NoSubject],
     [fail |-> "transport", list |-> FALSE, ids |-> <<>>, subject |-> NoSubject]}

\* the files whose name the mimetypes module knows
KnownUploads == {u \in Uploads : guess_type(u.filename) # NULL}

\* email_message_duplicate(original=row m)
Duplicate(m, env) ==
    /\ Len(msgs) < MaxDup
    /\ LET r == email_message_duplicate(msgs, atts, m, env)
       IN  /\ msgs' = r.msgs
           /\ atts' = r.atts
           /\ last' = Result("duplicate", m, r.raised, "none", 0)
    /\ UNCHANGED <<hooks, work, now, outbox>>

NextDup ==
    \/ \E c \in {Plain, ReplyNameOnly} : Len(msgs) < MaxDup /\ Store(Message("new", NULL, c))
    \/ \E m \in DOMAIN msgs : Prepare(m, msgs[m], PrepEnv(NoSubject, "none"))
    \/ \E m \in DOMAIN msgs : \E u \in KnownUploads :
          Attach(m, u.file, u.filename, guess_type(u.filename))
    \/ \E m \in DOMAIN msgs : \E env \in DupEnvs : Send(m, env)
    \/ \E m \in DOMAIN msgs : Duplicate(m, PrepEnv(NoSubject, "none"))

SpecDup == InitSend /\ [][NextDup]_vars

(***************************************************************************)
(* Calls of email_message_send that run at the same time.  Each caller     *)
(* loaded the message before it calls; the function tests the status of    *)
(* the caller's object and takes no lock, so the steps interleave freely.  *)
(***************************************************************************)
\* the collaborators of the concurrent calls: all work, or the transport fails
ConcEnvs ==
    [fail : {"none", "transport"}, list : {FALSE}, ids : {<<>>}]

IdleSend ==
    [StartSend(NoMsg, NewMessage("new", NULL), [fail |-> "none", list |-> FALSE, ids |-> <<>>])
        EXCEPT !.pc = "idle"]

InitSendConc ==
    /\ atts = <<>>
    /\ hooks = <<>>
    /\ work = [p \in Workers |-> IdleSend]
    /\ last = NoCall
    /\ now = 0
    /\ outbox = <<>>
    /\ msgs = <<StoredMessage("ready", NULL, 0), StoredMessage("ready", NULL, 0)>>

\* worker p loads message m and calls email_message_send on it
BeginSend(p, m, env) ==
    /\ work[p].pc = "idle"
    /\ work' = [work EXCEPT ![p] = StartSend(m, msgs[m], env)]
    /\ UNCHANGED <<msgs, atts, hooks, last, now, outbox>>

\* worker p runs the next step of its call, and returns after the last
AdvanceSend(p) ==
    /\ work[p].pc # "idle"
    /\ LET r == StepSend(msgs, atts, work[p], now)
       IN  /\ msgs' = r.msgs
           /\ outbox' = outbox \o r.loc.out
           /\ IF r.loc.pc = "done"
              THEN /\ work' = [work EXCEPT ![p] = IdleSend]
                   /\ last' = ReturnedOn(r.loc.m, r.loc.raised, r.loc.sent)
              ELSE /\ work' = [work EXCEPT ![p] = [r.loc EXCEPT !.out = <<>>]]
                   /\ last' = last
    /\ UNCHANGED <<atts, hooks, now>>

NextSendConc ==
    \/ \E p \in Workers : \E m \in DOMAIN msgs : \E env \in ConcEnvs : BeginSend(p, m, env)
    \/ \E p \in Workers : AdvanceSend(p)

SpecSendConc == InitSendConc /\ [][NextSendConc]_vars

(***************************************************************************)
(* The steps of email_message_send, one call at a time.                    *)
(***************************************************************************)
NextSendSteps ==
    \/ \E p \in Workers : \E m \in DOMAIN msgs : \E env \in SendEnvs :
          /\ \A q \in Workers : work[q].pc = "idle"
          /\ BeginSend(p, m, env)
    \/ \E p \in Workers : AdvanceSend(p)

SpecSendSteps == InitSendConc /\ [][NextSendSteps]_vars

(***************************************************************************)
(* Subjects: messages with every short subject are created and prepared,   *)
(* the subject given by the caller or rendered from the template.          *)
(***************************************************************************)
Characters == {"a", "b", " ", "\n"}

RECURSIVE Texts(_)
\* the texts of at most n characters
Texts(n) ==
    IF n = 0 THEN {<<>>}
    ELSE LET shorter == Texts(n - 1)
         IN  shorter \cup {Append(t, c) : t \in {u \in shorter : Len(u) = n - 1},
                                         c \in Characters}

\* the subjects a caller gives: every text up to one character more than
\* settings.MAX_SUBJECT_LENGTH, and one that the column does not take
Subjects ==
    Texts(MAX_SUBJECT_LENGTH + 1) \cup {[i \in 1 .. SubjectFieldLength + 1 |-> "a"]}

\* the names of the recipient
Names == {<<"\n", "a", " ">>, <<"a", " ", " ", "b">>}

\* what the subject template renders
RenderedSubjects ==
    {<<"a", "\n">>, <<"a", " ", " ", "b">>,
     [i \in 1 .. MAX_SUBJECT_LENGTH |-> "a"],
     [i \in 1 .. MAX_SUBJECT_LENGTH + 1 |-> IF i = 1 THEN "a" ELSE "b"],
     [i \in 1 .. SubjectFieldLength + 2 |-> IF i = 1 THEN " " ELSE "b"]}

SubjectDraft(subject, to_name) ==
    Message("new", NULL, [FactoryContent EXCEPT !.subject = subject, !.to_name = to_name])

SubjectEnvs ==
    {PrepEnv(NoSubject, "none")}
        \cup {PrepEnv([exists |-> TRUE, text |-> t], "none") : t \in RenderedSubjects}

NextSubject ==
    \/ \E subject \in Subjects : \E to_name \in Names :
          msgs = <<>> /\ Store(SubjectDraft(subject, to_name))
    \/ \E subject \in Subjects :
          msgs = <<>> /\ Len(subject) > MAX_SUBJECT_LENGTH
                     /\ Prepare(NoMsg, SubjectDraft(subject, <<>>), PrepEnv(NoSubject, "none"))
    \/ \E m \in DOMAIN msgs : \E env \in SubjectEnvs : Prepare(m, msgs[m], env)

SpecSubject == InitSend /\ [][NextSubject]_vars

(***************************************************************************)
(* Outbound mail and the global setting disable_outbound_email: what       *)
(* global_setting_get_value would return is part of the collaborators of   *)
(* a call; send does not read it, the check being commented out.           *)
(***************************************************************************)
OutboundEnvs ==
    {[disable_outbound_email |-> disabled] @@ PrepEnv(subject, fail) :
        disabled \in BOOLEAN, subject \in SubjectTemplates, fail \in {"none", "transport"}}

NextOutbound ==
    \/ \E d \in Drafts : \E env \in OutboundEnvs :
          /\ Len(msgs) < MaxPrep
          /\ Queue(NoMsg, d, CoolPeriod, cooldown_allowed, Scopes, env)
    \/ \E m \in DOMAIN msgs : \E env \in OutboundEnvs :
          Queue(m, msgs[m], CoolPeriod, cooldown_allowed, Scopes, env)

SpecOutbound == InitSend /\ [][NextOutbound]_vars

(***************************************************************************)
(* The life of a message: messages are stored, prepared, given an          *)
(* attachment, queued, sent and duplicated, and events of the provider     *)
(* are ingested and processed, the calls one at a time, each on the row    *)
(* as the caller loaded it.  The provider reports on identifiers it gave   *)
(* out, and every event is handed to email_message_webhook_process once.   *)
(***************************************************************************)
LifeBodies ==
    {KnownBody("Delivery", "id-abc123", [clock |-> 1, zone |-> "Z"]),
     KnownBody("Open", "id-abc123", [clock |-> 2, zone |-> "Z"])}

LifeUpload == [filename |-> [stem |-> "report", ext |-> "pdf"], file |-> "%PDF"]

NextLife ==
    \/ Len(msgs) < MaxDup /\ Store(Message("new", NULL, Plain))
    \/ \E m \in DOMAIN msgs : Prepare(m, msgs[m], PrepEnv(NoSubject, "none"))
    \/ \E m \in DOMAIN msgs :
          /\ atts = <<>>
          /\ Attach(m, LifeUpload.file, LifeUpload.filename, guess_type(LifeUpload.filename))
    \/ \E m \in DOMAIN msgs : \E env \in DupEnvs :
          Queue(m, msgs[m], CoolPeriod, cooldown_allowed, Scopes, env)
    \/ \E m \in DOMAIN msgs : \E env \in DupEnvs : Send(m, env)
    \/ \E m \in DOMAIN msgs : Duplicate(m, PrepEnv(NoSubject, "none"))
    \/ \E b \in LifeBodies :
          /\ \E m \in DOMAIN msgs : msgs[m].message_id = b["MessageID"]
          /\ Ingest(b, MaxLifeHooks, 1)
    \/ \E w \in DOMAIN hooks : hooks[w].status = "new" /\ Process(w)

SpecLife == InitSend /\ [][NextLife]_vars

(***************************************************************************)
(* The rate of dispatch: every message is dispatched through queue, the    *)
(* calls one at a time, all with the same period, threshold and scope set. *)
(* The threshold is one above the default, the scope set leaves the        *)
(* template out.                                                           *)
(***************************************************************************)
RateAllowed == cooldown_allowed + 1

RateScopes == {"created_by", "to"}

\* two contents that agree on the scopes and differ in the template, and
\* one for another recipient
RateContents ==
    {CoolContent("user", "core/email/password_reset", Alice),
     CoolContent("user", "account/email/password_reset_key", Alice),
     CoolContent("user", "core/email/password_reset", Carol)}

NextRate ==
    \/ \E c \in RateContents : \E env \in CoolEnvs :
          /\ Len(msgs) < MaxCool + RateAllowed
          /\ Queue(NoMsg, Message("new", NULL, c), CoolPeriod, RateAllowed, RateScopes, env)
    \/ Tick(MaxNow)

SpecRate == InitCool /\ [][NextRate]_vars

(***************************************************************************)
(* What the cooldown check counts: messages are queued, as new objects or  *)
(* as stored rows, and duplicated; events of the provider move the status  *)
(* of the messages that were sent; time passes.                            *)
(***************************************************************************)
CountContents ==
    {CoolContent("user", "core/email/password_reset", to) : to \in {Alice, Carol}}

\* the transport returns the list of one identifier, or fails
CountEnvs ==
    {[fail |-> "none", list |-> TRUE, ids |-> <<x>>, subject |-> NoSubject] :
        x \in ProviderIds}
        \cup {[fail |-> "transport", list |-> FALSE, ids |-> <<>>, subject |-> NoSubject]}

NextCount ==
    \/ \E c \in CountContents : \E env \in CountEnvs :
          /\ Len(msgs) < MaxDup
          /\ Queue(NoMsg, Message("new", NULL, c), CoolPeriod, cooldown_allowed, Scopes, env)
    \/ \E m \in DOMAIN msgs : \E env \in CountEnvs :
          Queue(m, msgs[m], CoolPeriod, cooldown_allowed, Scopes, env)
    \/ \E m \in DOMAIN msgs : Duplicate(m, PrepEnv(NoSubject, "none"))
    \/ \E b \in LifeBodies :
          /\ \E m \in DOMAIN msgs : msgs[m].message_id = b["MessageID"]
          /\ Ingest(b, MaxLifeHooks, 1)
    \/ \E w \in DOMAIN hooks : hooks[w].status = "new" /\ Process(w)
    \/ Tick(MaxNow)

SpecCount == InitCool /\ [][NextCount]_vars

(***************************************************************************)
(* Events that arrive while a message is being sent: send is followed step *)
(* by step, and between its steps events of the provider are ingested and  *)
(* processed.  A call of email_message_webhook_process reads the message   *)
(* table once, in its lookup, so the whole call is one step here.          *)
(***************************************************************************)
GapEnvs ==
    {[fail |-> "none", list |-> TRUE, ids |-> <<x>>] : x \in ProviderIds}
        \cup {[fail |-> "transport", list |-> FALSE, ids |-> <<>>]}

\* email_message_webhook_process on row w, while a send may be in flight
ProcessNow(w) ==
    /\ LET r == email_message_webhook_process(hooks, msgs, w)
       IN  /\ hooks' = r.hooks
           /\ msgs' = r.msgs
           /\ last' = Returned("process", r.loc.raised, 0)
    /\ UNCHANGED <<atts, work, now, outbox>>

NextGap ==
    \/ \E p \in Workers : \E m \in DOMAIN msgs : \E env \in GapEnvs :
          /\ \A q \in Workers : work[q].pc = "idle"
          /\ BeginSend(p, m, env)
    \/ \E p \in Workers : AdvanceSend(p)
    \/ \E b \in LifeBodies : Ingest(b, MaxLifeHooks, 1)
    \/ \E w \in DOMAIN hooks : ProcessNow(w)

SpecGap == InitSendConc /\ [][NextGap]_vars

(***************************************************************************)
(* Properties of the reconciliation.                                       *)
(***************************************************************************)
\* payload b has value v under key k
Carries(b, k, v) == k \in DOMAIN b /\ b[k] = v

\* the logical timestamp of a payload of known type
EventInstant(b) == ReadTimestamp(b["RecordType"], b).t

WellFormed(b) ==
    /\ "RecordType" \in DOMAIN b
    /\ b["RecordType"] \in KnownTypes
    /\ ReadTimestamp(b["RecordType"], b).exc = "none"

\* the rows whose payload carries the identifier of message m
EventsFor(m) ==
    {w \in DOMAIN hooks :
        /\ "MessageID" \in DOMAIN hooks[w].body
        /\ hooks[w].body["MessageID"] = msgs[m].message_id}

\* the events of message m are well-formed, pairwise distinct in their
\* logical timestamps and each was processed; no other row exists
AllProcessedDistinct(m) ==
    /\ hooks # <<>>
    /\ EventsFor(m) = DOMAIN hooks
    /\ \A w \in DOMAIN hooks : WellFormed(hooks[w].body) /\ hooks[w].status = "processed"
    /\ \A v, w \in DOMAIN hooks :
          v # w => EventInstant(hooks[v].body) # EventInstant(hooks[w].body)

Latest(m) ==
    CHOOSE w \in EventsFor(m) :
        \A v \in EventsFor(m) : EventInstant(hooks[v].body) <= EventInstant(hooks[w].body)

\* C1: once every event of a message (known types, its identifier, pairwise
\* distinct logical timestamps) was processed, one at a time and in whatever
\* order, the message has the status mapped from the event with the greatest
\* logical timestamp.
C1_LatestTimestampWins ==
    \A m \in DOMAIN msgs :
        AllProcessedDistinct(m) =>
            msgs[m].status =
                WEBHOOK_TYPE_TO_EMAIL_STATUS[hooks[Latest(m)].body["RecordType"]]

\* three events processed out of order (the second is the earliest, the
\* first neither the earliest nor the latest), one of them in offset form
C1_Witness ==
    /\ Len(hooks) = 3
    /\ AllProcessedDistinct(1)
    /\ EventInstant(hooks[2].body) < EventInstant(hooks[1].body)
    /\ EventInstant(hooks[1].body) < EventInstant(hooks[3].body)
    /\ hooks[1].body["RecordType"] = "Open"
    /\ hooks[2].body["RecordType"] = "Delivery"
    /\ hooks[2].body["DeliveredAt"] = OffsetTs
    /\ hooks[3].body["RecordType"] = "SpamComplaint"
    /\ msgs[1].status = "spam"

\* C3 (as claimed): calls for events of the same message that run at the same
\* time leave the message with the status a serial execution gives: once
\* they all returned, the status of the event with the latest timestamp.
C3_ConcurrentCallsSerialize ==
    \A m \in DOMAIN msgs :
        (AllIdle /\ AllProcessedDistinct(m)) =>
            msgs[m].status =
                WEBHOOK_TYPE_TO_EMAIL_STATUS[hooks[Latest(m)].body["RecordType"]]

\* the rows already recorded for message m
Recorded(m) == {v \in DOMAIN hooks : hooks[v].email_message = m}

\* event w is not later than every event already recorded for message m
NotLater(w, m) ==
    \E v \in Recorded(m) :
        EventInstant(hooks[w].body) <= EventInstant(hooks[v].body)

\* C2: processing a known-type event whose logical timestamp is not strictly
\* greater than the greatest one already recorded for its message (earlier,
\* or equal) leaves the message table unchanged; the event ends PROCESSED
\* and linked to the message.
C2_StaleEventKeepsStatus ==
    [][\A w \in DOMAIN hooks : \A m \in DOMAIN msgs :
          (/\ hooks[w].status = "new"
           /\ WellFormed(hooks[w].body)
           /\ w \in EventsFor(m)
           /\ NotLater(w, m)
           /\ Process(w))
          => (/\ msgs' = msgs
              /\ hooks'[w].status = "processed"
              /\ hooks'[w].email_message = m)]_vars

\* an equal instant written differently (01:00Z, then 02:00+01:00) and an
\* earlier one were processed after the event that set the status
C2_Witness ==
    /\ Len(hooks) = 3
    /\ \A w \in DOMAIN hooks : hooks[w].status = "processed" /\ hooks[w].email_message = 1
    /\ hooks[1].body["RecordType"] = "Open"
    /\ EventInstant(hooks[1].body) = 2
    /\ hooks[2].body["RecordType"] = "Delivery"
    /\ hooks[2].body["DeliveredAt"] = [clock |-> 2, zone |-> "Z"]
    /\ hooks[3].body["RecordType"] = "Bounce"
    /\ EventInstant(hooks[3].body) = 1
    /\ msgs[1].status = "opened"

\* the moves of an event's status that one whole call may make
EventMoves == {<<"new", "processed">>, <<"new", "error">>}

\* C4 (as claimed): an event's status only moves NEW -> PENDING -> PROCESSED
\* or NEW -> PENDING -> ERROR; an event that reached PROCESSED stays as it is,
\* and a repeated process call on it changes neither the event nor a message.
C4_ProcessedIsFinal ==
    [][\A w \in DOMAIN hooks :
          /\ hooks'[w].status # hooks[w].status
                => <<hooks[w].status, hooks'[w].status>> \in EventMoves
          /\ hooks[w].status = "processed" => hooks'[w] = hooks[w]
          /\ (hooks[w].status = "processed" /\ Process(w)) => msgs' = msgs]_vars

\* C5 (as claimed): process on an event that is not NEW fails with the
\* precondition's error (a RuntimeError in the source), which reaches the caller.
C5_PreconditionPropagates ==
    [][\A w \in DOMAIN hooks :
          (hooks[w].status # "new" /\ Process(w)) => last'.raised = "RuntimeError"]_vars

\* what makes a step of processing a NEW event fail: the event is of known
\* type and matches a message, and its own timestamp field is missing or
\* unparseable, or that of a row already recorded for the message is
Unreadable(type, body) == ReadTimestamp(type, body).exc # "none"

StepFails(w) ==
    /\ "RecordType" \in DOMAIN hooks[w].body
    /\ hooks[w].body["RecordType"] \in KnownTypes
    /\ \E m \in DOMAIN msgs :
          /\ w \in EventsFor(m)
          /\ \/ Unreadable(hooks[w].body["RecordType"], hooks[w].body)
             \/ \E v \in Recorded(m) : Unreadable(hooks[v].type, hooks[v].body)

C7_UnknownTypeIsProcessed ==
    [][\A w \in DOMAIN hooks :
          (/\ hooks[w].status = "new"
           /\ "RecordType" \in DOMAIN hooks[w].body
           /\ hooks[w].body["RecordType"] \notin DOMAIN WEBHOOK_TYPE_TO_EMAIL_STATUS
           /\ Process(w))
          => (/\ hooks'[w].status = "processed"
              /\ hooks'[w].type = hooks[w].body["RecordType"]
              /\ msgs' = msgs)]_vars

\* a "some_type" event that matches message 2 and one that matches none
C7_Witness ==
    /\ Len(hooks) = 2
    /\ \A w \in DOMAIN hooks : hooks[w].status = "processed" /\ hooks[w].type = "some_type"
    /\ Carries(hooks[1].body, "MessageID", "id-abc123") /\ hooks[1].email_message = 2
    /\ Carries(hooks[2].body, "MessageID", "id-none") /\ hooks[2].email_message = NoMsg

\* the messages whose message_id is the identifier event w carries
Holders(w) == {m \in DOMAIN msgs : msgs[m].message_id = hooks[w].body["MessageID"]}

\* C8: an event that carries a message identifier and ends PROCESSED is
\* linked to the message with that message_id and to no other; when no
\* message has the identifier the event stays unlinked, ends PROCESSED, and
\* no message is modified.
C8_LinkedByIdentifier ==
    [][\A w \in DOMAIN hooks :
          (/\ hooks[w].status = "new"
           /\ "MessageID" \in DOMAIN hooks[w].body
           /\ Process(w))
          => /\ (hooks'[w].status = "processed" /\ Holders(w) # {})
                    => hooks'[w].email_message \in Holders(w)
             /\ Holders(w) = {}
                    => (/\ hooks'[w].email_message = NoMsg
                        /\ hooks'[w].status = "processed"
                        /\ msgs' = msgs)]_vars

\* a Delivery event linked to message 2, the second of the table, and an
\* event whose identifier no message has
C8_Witness ==
    /\ Len(hooks) = 2
    /\ \A w \in DOMAIN hooks : hooks[w].status = "processed"
    /\ Carries(hooks[1].body, "MessageID", "id-abc123") /\ hooks[1].email_message = 2
    /\ hooks[1].type = "Delivery" /\ msgs[2].status = "delivered"
    /\ Carries(hooks[2].body, "MessageID", "id-none") /\ hooks[2].email_message = NoMsg
    /\ hooks[2].type = "Bounce"

(***************************************************************************)
(* Properties of the dispatch.                                             *)
(***************************************************************************)
\* C9 (as claimed): a send call on a READY message ends with the message
\* persisted as SENT with sent_at set, or as ERROR with a non-empty
\* error_message and sent_at still null; the call invokes the transport at
\* most once and never leaves the message PENDING.
C9_SendEndsSentOrError ==
    [][\A m \in DOMAIN msgs :
          (msgs[m].status = "ready" /\ last'.on = m /\ \E env \in SendEnvs : Send(m, env))
          => /\ last'.sent <= 1
             /\ msgs'[m].status # "pending"
             /\ \/ msgs'[m].status = "sent" /\ msgs'[m].sent_at # NoTime
                \/ /\ msgs'[m].status = "error"
                   /\ msgs'[m].error_message # ""
                   /\ msgs'[m].sent_at = NoTime]_vars

\* C10: send on a message whose status is not READY fails with the
\* precondition's error (a RuntimeError in the source), persists nothing and
\* does not invoke the transport.
C10_SendNeedsReady ==
    [][\A m \in DOMAIN msgs :
          (msgs[m].status # "ready" /\ last'.on = m /\ \E env \in SendEnvs : Send(m, env))
          => /\ last'.raised = "RuntimeError"
             /\ last'.sent = 0
             /\ msgs' = msgs
             /\ outbox' = outbox]_vars

\* send was refused on a message that was never prepared, after another
\* message was dispatched
C10_Witness ==
    /\ Len(msgs) = 2
    /\ msgs[1].status = "sent"
    /\ msgs[2].status = "new"
    /\ outbox = <<Mail(1, <<>>)>>
    /\ last = ReturnedOn(2, "RuntimeError", 0)

\* the mails of message m that the transport accepted
Dispatches(m) == {i \in DOMAIN outbox : outbox[i].m = m}

\* C11 (as claimed): when send calls on the same READY message run at the
\* same time, the transport is invoked for that message at most once (the
\* later caller sees the persisted PENDING and does not dispatch).
C11_ConcurrentSendOnce ==
    \A m \in DOMAIN msgs : Cardinality(Dispatches(m)) <= 1

(***************************************************************************)
(* Claims about the cooldown.                                              *)
(***************************************************************************)
\* the candidate as queue hands it to the cooldown check: the caller's new
\* object after email_message_prepare
Candidate(c, env) == email_message_prepare(msgs, NoMsg, Message("new", NULL, c), env).obj

\* C12: queue returns false exactly when the cooldown check suppresses the
\* message, and then the message is stored as CANCELED with error_message
\* "Cooling down" and the transport is not invoked; otherwise queue runs send
\* once and returns true, also when that send ends in ERROR.
C12_QueueReturn ==
    [][\A c \in CoolContents : \A scopes \in SUBSET Scopes : \A env \in QueueEnvs :
          /\ last'.op = "queue"
          /\ Len(msgs) < MaxCool
          /\ Queue(NoMsg, Message("new", NULL, c), CoolPeriod, cooldown_allowed, scopes, env)
          => IF email_message_check_cooling_down(msgs, Candidate(c, env), CoolPeriod,
                                                 cooldown_allowed, scopes, now)
             THEN /\ last'.ret = "False"
                  /\ msgs'[last'.on].status = "canceled"
                  /\ msgs'[last'.on].error_message = "Cooling down"
                  /\ last'.sent = 0
                  /\ outbox' = outbox
             ELSE /\ last'.ret = "True"
                  /\ last'.sent <= 1
                  /\ msgs'[last'.on].status \in {"sent", "error"}]_vars

\* the messages that count for candidate e: sent less than period ago and
\* equal to e on every scope of the set
SameOn(scope, row, e) ==
    CASE scope = "created_by" -> row.created_by = e.created_by
      [] scope = "template_prefix" -> row.template_prefix = e.template_prefix
      [] scope = "to" -> row.to_email = e.to_email

Counting(e, period, scopes) ==
    {m \in DOMAIN msgs :
        /\ msgs[m].sent_at # NoTime
        /\ now - msgs[m].sent_at < period
        /\ \A scope \in scopes : SameOn(scope, msgs[m], e)}

\* the candidates of the cooldown check: a prepared message of each content
Candidates == {Message("ready", NULL, c) : c \in CoolContents}

\* the default threshold and the next one
Thresholds == {cooldown_allowed, cooldown_allowed + 1}

\* the period of the queue calls, and one longer than any age
Periods == {CoolPeriod, MaxNow + 1}

\* C13: the cooldown check suppresses a candidate exactly when the number
\* of messages sent within the last period that equal the candidate on
\* every scope of the scope set is at least the threshold; a message sent
\* longer ago than the period, or differing on a scope of the set, never
\* counts.
C13_CooldownCounts ==
    \A e \in Candidates : \A scopes \in SUBSET Scopes :
       \A period \in Periods : \A allowed \in Thresholds :
          email_message_check_cooling_down(msgs, e, period, allowed, scopes, now)
             <=> Cardinality(Counting(e, period, scopes)) >= allowed

\* C13 happens: the first message was sent; the second, alike on all scopes,
\* was queued within the period and canceled; by now the first was sent a
\* period ago or longer and the check no longer suppresses the second
C13_Witness ==
    /\ Len(msgs) = 2
    /\ msgs[1].status = "sent"
    /\ msgs[2].status = "canceled"
    /\ \A scope \in Scopes : SameOn(scope, msgs[1], msgs[2])
    /\ last = Result("queue", 2, "none", "False", 0)
    /\ now - msgs[1].sent_at >= CoolPeriod
    /\ ~email_message_check_cooling_down(msgs, msgs[2], CoolPeriod, cooldown_allowed,
                                         Scopes, now)

\* C14: with the period and the threshold fixed, a candidate the cooldown
\* check suppresses with scope set S is suppressed with every subset of S,
\* and with the empty scope set every message sent within the period counts
\* whatever its sender actor, template and recipient.
C14_FewerScopesSuppressMore ==
    \A e \in Candidates : \A period \in Periods : \A allowed \in Thresholds :
       /\ \A S \in SUBSET Scopes : \A T \in SUBSET S :
             email_message_check_cooling_down(msgs, e, period, allowed, S, now)
                => email_message_check_cooling_down(msgs, e, period, allowed, T, now)
       /\ email_message_check_cooling_down(msgs, e, period, allowed, {}, now)
             <=> Cardinality({m \in DOMAIN msgs : /\ msgs[m].sent_at # NoTime
                                                  /\ now - msgs[m].sent_at < period})
                    >= allowed

\* C14 happens: the second message differs from the first, which was sent
\* within the period, in its recipient, and was canceled by a queue call
\* whose scope set left the recipient out: the check suppresses it with the
\* sender actor and the template as scopes, and not with all three
C14_Witness ==
    /\ Len(msgs) = 2
    /\ msgs[1].status = "sent"
    /\ msgs[2].status = "canceled"
    /\ msgs[2].to_email # msgs[1].to_email
    /\ last = Result("queue", 2, "none", "False", 0)
    /\ email_message_check_cooling_down(msgs, msgs[2], CoolPeriod, cooldown_allowed,
                                        {"created_by", "template_prefix"}, now)
    /\ email_message_check_cooling_down(msgs, msgs[2], CoolPeriod, cooldown_allowed,
                                        {"created_by"}, now)
    /\ ~email_message_check_cooling_down(msgs, msgs[2], CoolPeriod, cooldown_allowed,
                                         Scopes, now)

(***************************************************************************)
(* Claims about the preparation.                                           *)
(***************************************************************************)
\* C15: prepare on a message whose status is not NEW fails with the error
\* of an invalid state transition and changes no field of the record, in
\* memory or persisted.
C15_PrepareNeedsNew ==
    [][\A m \in DOMAIN msgs : \A subject \in SubjectTemplates :
          /\ last'.op = "prepare"
          /\ msgs[m].status # "new"
          /\ Prepare(m, msgs[m], PrepEnv(subject, "none"))
          => /\ last' = Result("prepare", m, "RuntimeError", "none", 0)
             /\ msgs' = msgs
             /\ email_message_prepare(msgs, m, msgs[m], PrepEnv(subject, "none")).obj
                   = msgs[m]]_vars

\* C15 happens: prepare was called on a message that is OPENED, next to one
\* that is SENT
C15_Witness ==
    /\ Len(msgs) = 2
    /\ msgs[1].status = "sent"
    /\ msgs[2].status = "opened"
    /\ last = Result("prepare", 2, "RuntimeError", "none", 0)

\* a name to reply to that is not blank, and a blank address to reply to
NameWithoutAddress(obj) ==
    trim_string(obj.reply_to_name) # <<>> /\ trim_string(obj.reply_to_email) = <<>>

\* the call raised and left the message stored with status ERROR, and handed
\* nothing to the transport
EndedInError ==
    /\ last'.raised # "none"
    /\ last'.on \in DOMAIN msgs'
    /\ msgs'[last'.on].status = "error"
    /\ last'.sent = 0
    /\ outbox' = outbox

\* the new objects and the stored rows prepare may be called on
Prepared == {<<NoMsg, d>> : d \in Drafts} \cup {<<m, msgs[m]>> : m \in DOMAIN msgs}

\* no message was handed to the transport that has a name to reply to and
\* no address
NeverDispatched == \A i \in DOMAIN outbox : ~NameWithoutAddress(msgs[outbox[i].m])

C17_IngestMappingsOnly ==
    [][\A body \in RawBodies : \A headers \in HeaderSets :
          /\ last'.op = "ingest"
          /\ Receive(body, headers)
          => IF body.json /\ body.kind = "object"
             THEN /\ last'.raised = "none"
                  /\ Len(hooks') = Len(hooks) + 1
                  /\ SubSeq(hooks', 1, Len(hooks)) = hooks
                  /\ hooks'[Len(hooks')].status = "new"
                  /\ hooks'[Len(hooks')].body = body.value
             ELSE /\ last'.raised = "ValueError"
                  /\ hooks' = hooks]_vars

\* C17 happens: the empty mapping was ingested and is stored with status
\* NEW, and the ingest after it raised and stored nothing
C17_Witness ==
    /\ Len(hooks) = 1
    /\ hooks[1].status = "new"
    /\ hooks[1].body = <<>>
    /\ last = Returned("ingest", "ValueError", 0)

(***************************************************************************)
(* Claims about attachments.                                               *)
(***************************************************************************)
\* the call raised the error of a mismatch and the attachment table is as
\* it was
MismatchRejected == last'.raised = "ValueError" /\ atts' = atts

\* C18 as stated: attach with a filename whose extension-inferred MIME type
\* differs from the declared MIME type fails with the error of an invalid
\* value and creates no attachment; the attachment list of the message is
\* unchanged.
C18_MismatchAnyStatus ==
    [][\A m \in DOMAIN msgs : \A u \in Uploads : \A mimetype \in MimeTypes :
          /\ last'.op = "attach"
          /\ last'.on = m
          /\ guess_type(u.filename) # mimetype
          /\ Attach(m, u.file, u.filename, mimetype)
          => MismatchRejected]_vars

\* C18, amended: the same for attach to a READY message.
C18_MismatchRejected ==
    [][\A m \in DOMAIN msgs : \A u \in Uploads : \A mimetype \in MimeTypes :
          /\ last'.op = "attach"
          /\ last'.on = m
          /\ msgs[m].status = "ready"
          /\ guess_type(u.filename) # mimetype
          /\ Attach(m, u.file, u.filename, mimetype)
          => MismatchRejected]_vars

\* C18 happens: message 1 is READY and has one attachment, and the attach
\* after it raised for a mismatch
C18_Witness ==
    /\ msgs[1].status = "ready"
    /\ Len(atts) = 1
    /\ atts[1].email_message = 1
    /\ last = Result("attach", 1, "ValueError", "none", 0)

\* the attachments of message m in the order in which they were bound, as
\* the transport is handed them
Bound(as, m) ==
    LET own == SelectSeq(as, LAMBDA a : a.email_message = m)
    IN  [k \in 1 .. Len(own) |-> Attached(own[k])]

Handed(m) == Bound(atts, m)

\* C19: send hands the transport every attachment bound to the message,
\* each exactly once and in the order in which they were bound, with the
\* original filename and the declared MIME type: the mail the transport
\* accepts from a send carries exactly these, and a send that ends otherwise
\* leaves no mail.
C19_AttachmentsInOrder ==
    [][\A m \in DOMAIN msgs :
          /\ last'.op = "send"
          /\ last'.on = m
          /\ \E env \in AttachEnvs : Send(m, env)
          => outbox' = IF last'.raised = "none" /\ msgs'[m].status = "sent"
                       THEN Append(outbox, Mail(m, Handed(m)))
                       ELSE outbox]_vars

\* C19 happens: message 1 was sent with its two attachments, the PDF bound
\* before the JSON file
C19_Witness ==
    /\ msgs[1].status = "sent"
    /\ last = ReturnedOn(1, "none", 1)
    /\ outbox = <<Mail(1, << [filename |-> [stem |-> "report", ext |-> "pdf"],
                              content |-> "%PDF", mimetype |-> "application/pdf"],
                            [filename |-> [stem |-> "data", ext |-> "json"],
                              content |-> "{}", mimetype |-> "application/json"] >>)>>

(***************************************************************************)
(* Claims about the duplication.                                           *)
(***************************************************************************)
\* the call returned, the last row is the copy of message m: READY, with
\* error_message empty, message_id and sent_at null, the content of m and
\* copies of its attachments in their order; the rows and the attachments
\* there were are as they were, and nothing was handed to the transport
DuplicateReturned(m) ==
    /\ last'.raised = "none"
    /\ Len(msgs') = Len(msgs) + 1
    /\ SubSeq(msgs', 1, Len(msgs)) = msgs
    /\ msgs'[Len(msgs')] = [msgs[m] EXCEPT !.status = "ready", !.error_message = "",
                                           !.message_id = NULL, !.sent_at = NoTime]
    /\ SubSeq(atts', 1, Len(atts)) = atts
    /\ Bound(atts', Len(msgs')) = Bound(atts, m)
    /\ outbox' = outbox

\* prepare has succeeded on the message: every message here was stored NEW,
\* so it has left NEW by a prepare, and a prepare that fails leaves ERROR
\* with no error_message
PrepareSucceeded(row) ==
    row.status # "new" /\ ~(row.status = "error" /\ row.error_message = "")

\* C20 as stated: duplicate of a persisted message returns a new record
\* with a fresh identity, status READY, error_message empty, message_id and
\* sent_at null, the same content fields and copies of all the attachments
\* of the original in the original order; the original and its attachments
\* are left unchanged and nothing is dispatched.
C20_DuplicateOfAny ==
    [][\A m \in DOMAIN msgs :
          /\ last'.op = "duplicate"
          /\ last'.on = m
          /\ Duplicate(m, PrepEnv(NoSubject, "none"))
          => DuplicateReturned(m)]_vars

\* C20, amended: the same for a persisted message on which prepare has
\* succeeded.
C20_DuplicateOfPrepared ==
    [][\A m \in DOMAIN msgs :
          /\ last'.op = "duplicate"
          /\ last'.on = m
          /\ PrepareSucceeded(msgs[m])
          /\ Duplicate(m, PrepEnv(NoSubject, "none"))
          => DuplicateReturned(m)]_vars

\* C20 happens: message 1 was sent with two attachments and duplicated;
\* message 2 is the copy, READY, with copies of the two attachments
C20_Witness ==
    /\ Len(msgs) = 2
    /\ msgs[1].status = "sent"
    /\ msgs[1].message_id = "id-abc123"
    /\ msgs[2].status = "ready"
    /\ Len(atts) = 4
    /\ Len(Bound(atts, 1)) = 2
    /\ Bound(atts, 2) = Bound(atts, 1)
    /\ Bound(atts, 1)[1] # Bound(atts, 1)[2]
    /\ last = Result("duplicate", 1, "none", "none", 0)

(***************************************************************************)
(* Properties of the subject and of the trimming.                          *)
(***************************************************************************)
\* the subject prepare works on: the one of the message, or the one rendered
Source(e, env) == IF e.subject = <<>> THEN env.subject.text ELSE e.subject

\* prepare on row m with env returned
PreparedWith(m, env) ==
    /\ msgs[m].status = "new"
    /\ last'.op = "prepare" /\ last'.on = m /\ last'.raised = "none"
    /\ Prepare(m, msgs[m], env)

\* C21: after prepare succeeds the subject is never longer than
\* settings.MAX_SUBJECT_LENGTH: a trimmed subject of at most that length is
\* kept unchanged, and a longer one becomes its first (maximum - 3)
\* characters followed by "...", of length exactly the maximum
C21_SubjectLimit ==
    [][\A m \in DOMAIN msgs : \A env \in SubjectEnvs :
          PreparedWith(m, env) =>
              LET trimmed == trim_string(Source(msgs[m], env))
                  subject == msgs'[m].subject
              IN  /\ msgs'[m].status = "ready"
                  /\ Len(subject) <= MAX_SUBJECT_LENGTH
                  /\ Len(trimmed) <= MAX_SUBJECT_LENGTH => subject = trimmed
                  /\ Len(trimmed) > MAX_SUBJECT_LENGTH =>
                        /\ Len(subject) = MAX_SUBJECT_LENGTH
                        /\ SubSeq(subject, 1, MAX_SUBJECT_LENGTH - 3)
                              = SubSeq(trimmed, 1, MAX_SUBJECT_LENGTH - 3)
                        /\ SubSeq(subject, MAX_SUBJECT_LENGTH - 2, MAX_SUBJECT_LENGTH)
                              = <<".", ".", ".">>]_vars

\* a message whose trimmed subject was longer than the maximum is READY
\* with the shortened subject
C21_Witness ==
    \E m \in DOMAIN msgs :
        /\ msgs[m].status = "ready" /\ last.op = "prepare" /\ last.raised = "none"
        /\ msgs[m].subject = [i \in 1 .. MAX_SUBJECT_LENGTH - 3 |-> "b"] \o <<".", ".", ".">>

\* t has no line break, no whitespace at either end and no two whitespace
\* characters in a row
Tidy(t) ==
    /\ \A i \in 1 .. Len(t) : t[i] \notin LineBreaks
    /\ t # <<>> => t[1] \notin Whitespace /\ t[Len(t)] \notin Whitespace
    /\ \A i \in 1 .. Len(t) - 1 : ~(t[i] \in Whitespace /\ t[i + 1] \in Whitespace)

\* C22: for every input string, the trim operation prepare applies to the
\* text fields and to the subject returns a string with no line break, no
\* leading or trailing whitespace, and every internal run of line breaks and
\* repeated whitespace collapsed into a single space
C22_TrimCollapses ==
    [][\A m \in DOMAIN msgs : \A env \in SubjectEnvs :
          PreparedWith(m, env) =>
              /\ msgs'[m].to_name = trim_string(msgs[m].to_name)
              /\ Tidy(msgs'[m].to_name)
              /\ Tidy(trim_string(Source(msgs[m], env)))]_vars

\* C23: when the global setting disable_outbound_email is true, queueing a
\* message dispatches nothing and ends with the message in ERROR with an
\* error_message containing "GlobalSetting disable_outbound_email is True"
C23_OutboundDisabled ==
    [][\A d \in Drafts : \A env \in OutboundEnvs :
          (/\ env.disable_outbound_email
           /\ last'.op = "queue" /\ last'.ret = "True"
           /\ Queue(NoMsg, d, CoolPeriod, cooldown_allowed, Scopes, env))
          => /\ outbox' = outbox
             /\ last'.sent = 0
             /\ msgs'[last'.on].status = "error"
             /\ msgs'[last'.on].error_message
                   = "GlobalSetting disable_outbound_email is True"]_vars

(***************************************************************************)
(* Properties of the reconciliation among other events.                    *)
(***************************************************************************)
\* the rows recorded for message m whose timestamp can be read
Readable(m) == {v \in Recorded(m) : ~Unreadable(hooks[v].type, hooks[v].body)}

\* C24: processing a well-formed known-type event (its identifier matches a
\* message and its payload carries a valid timestamp) ends with the event
\* PROCESSED and the ordering rule applied, whatever other events are
\* already linked to that message, including events of unrecognized or
\* blank type and events that ended in ERROR because their own timestamp
\* field was missing
C24_OtherEventsDoNotMatter ==
    [][\A w \in DOMAIN hooks : \A m \in DOMAIN msgs :
          (/\ hooks[w].status = "new"
           /\ WellFormed(hooks[w].body)
           /\ w \in EventsFor(m)
           /\ Process(w))
          => /\ hooks'[w].status = "processed"
             /\ msgs'[m].status =
                   IF \A v \in Readable(m) :
                         EventInstant(hooks[v].body) < EventInstant(hooks[w].body)
                   THEN WEBHOOK_TYPE_TO_EMAIL_STATUS[hooks[w].body["RecordType"]]
                   ELSE msgs[m].status]_vars

(***************************************************************************)
(* Properties of the lifecycle of a message.                               *)
(***************************************************************************)
\* the step is a prepare call, direct or through queue, on a message that
\* is NEW: an object that was not saved, or a stored row
PrepareOnNew ==
    /\ last'.op \in {"prepare", "queue"}
    /\ \/ \E d \in Drafts : Len(msgs) < MaxPrep /\ PrepareCall(NoMsg, d)
       \/ \E m \in DOMAIN msgs : msgs[m].status = "new" /\ PrepareCall(m, msgs[m])

\* C25: every prepare call on a NEW message (directly or through queue) ends
\* either with the message persisted as READY (the call returns) or with the
\* message persisted as ERROR (the call raises): no failure inside prepare,
\* such as a field failing validation or a missing subject template, leaves
\* the attempt without a persisted record or with a record still in NEW
C25_PrepareEndsReadyOrError ==
    [][PrepareOnNew =>
          /\ last'.on \in DOMAIN msgs'
          /\ IF last'.raised = "none"
             THEN /\ msgs'[last'.on].status # "new"
                  /\ last'.op = "prepare" => msgs'[last'.on].status = "ready"
             ELSE msgs'[last'.on].status = "error"]_vars

\* C26: webhook processing changes the status only of messages that are in
\* SENT or a SENT-derived state (SENT, DELIVERED, OPENED, BOUNCED, SPAM): a
\* message whose status is NEW, READY, PENDING, CANCELED or ERROR never has
\* its status changed by a webhook event, even when the event's identifier
\* equals its message_id
C26_OnlySentMessages ==
    [][\A w \in DOMAIN hooks : \A m \in DOMAIN msgs :
          (/\ msgs[m].status \in {"new", "ready", "pending", "canceled", "error"}
           /\ Process(w))
          => msgs'[m].status = msgs[m].status]_vars

\* how far a message got: NEW, then READY, then every other status
Rank(status) == CASE status = "new" -> 0 [] status = "ready" -> 1 [] OTHER -> 2

\* the mails of message m the transport accepted
MailsOf(m) == {i \in DOMAIN outbox : outbox[i].m = m}

\* C27: over any sequence of prepare, attach, queue, send, duplicate and
\* webhook process calls executed one at a time, no message returns to NEW
\* or READY once it has left that status, so the transport is invoked at
\* most once per message; in particular queue on a message whose status is
\* neither NEW nor READY (e.g. SENT, CANCELED, ERROR) raises the error of
\* the precondition (a RuntimeError in the source), changes nothing and
\* dispatches nothing
C27_NoWayBack ==
    /\ [][/\ \A m \in DOMAIN msgs : Rank(msgs'[m].status) >= Rank(msgs[m].status)
          /\ last'.sent > 0 =>
                /\ last'.sent = 1
                /\ last'.on \in DOMAIN msgs
                /\ Rank(msgs[last'.on].status) < 2
                /\ Rank(msgs'[last'.on].status) = 2
          /\ \A m \in DOMAIN msgs : \A env \in DupEnvs :
                (/\ Rank(msgs[m].status) = 2
                 /\ last'.op = "queue"
                 /\ Queue(m, msgs[m], CoolPeriod, cooldown_allowed, Scopes, env))
                => /\ last'.raised = "RuntimeError"
                   /\ last'.sent = 0
                   /\ <<msgs', atts', outbox'>> = <<msgs, atts, outbox>>]_vars
    /\ [](\A m \in DOMAIN msgs : Cardinality(MailsOf(m)) <= 1)

\* a message was sent, and then queue on it raised and dispatched nothing;
\* another was canceled by the cooldown check
C27_Witness ==
    /\ \E m \in DOMAIN msgs : /\ msgs[m].status \in SentStatuses
                               /\ MailsOf(m) # {}
                               /\ last = Result("queue", m, "RuntimeError", "none", 0)
    /\ \E m \in DOMAIN msgs : msgs[m].status = "canceled"

ReturnsHeldId(m, env) ==
    /\ env.fail = "none" /\ env.list /\ Len(env.ids) = 1
    /\ \E o \in DOMAIN msgs : o # m /\ msgs[o].message_id = env.ids[1]

\* C29: in every reachable state no two persisted messages share a non-null
\* message_id; when the transport returns an identifier already held by
\* another message, send does not record it and the failure propagates to
\* the caller instead of being swallowed
C29_MessageIdUnique ==
    /\ [](\A m, o \in DOMAIN msgs :
            (m # o /\ msgs[m].message_id # NULL)
                => msgs[m].message_id # msgs[o].message_id)
    /\ [][\A m \in DOMAIN msgs : \A env \in SendEnvs :
            (/\ msgs[m].status = "ready"
             /\ ReturnsHeldId(m, env)
             /\ Send(m, env))
            => /\ msgs'[m].message_id = msgs[m].message_id
               /\ last'.raised = "ValidationError"
               /\ last'.sent = 1]_vars

\* the transport answered a send with the identifier of another message:
\* the call raised, and the message holds no identifier
C29_Witness ==
    /\ last.op = "send" /\ last.raised = "ValidationError" /\ last.sent = 1
    /\ msgs[last.on].message_id = NULL
    /\ \E o \in DOMAIN msgs : o # last.on /\ msgs[o].message_id \in ProviderIds

\* C30: in every reachable state, a message's error_message is non-empty
\* only if its status is ERROR
C30_ErrorMessageOnlyInError ==
    \A m \in DOMAIN msgs : msgs[m].error_message # "" => msgs[m].status = "error"

(***************************************************************************)
(* Properties of the rate of dispatch.                                     *)
(***************************************************************************)
\* the messages whose mail the transport accepted
Dispatched == {m \in DOMAIN msgs : MailsOf(m) # {}}

\* the messages of D agree on every scope of the set
Alike(D, scopes) ==
    \A m, o \in D : \A scope \in scopes : SameOn(scope, msgs[m], msgs[o])

\* the time between the first and the last dispatch of D
Span(D) ==
    LET first == CHOOSE m \in D : \A o \in D : msgs[m].sent_at <= msgs[o].sent_at
        final == CHOOSE m \in D : \A o \in D : msgs[o].sent_at <= msgs[m].sent_at
    IN  msgs[final].sent_at - msgs[first].sent_at

Counts(m, e) ==
    email_message_check_cooling_down(<<msgs[m]>>, e, CoolPeriod, cooldown_allowed,
                                     Scopes, now)

\* what the check of the queue calls answers for each candidate
Verdicts(ms, t) ==
    [e \in Candidates |->
        email_message_check_cooling_down(ms, e, CoolPeriod, cooldown_allowed, Scopes, t)]

\* C32: the cooldown count is by dispatch time, not by current status: a
\* message dispatched within the window still counts after webhooks moved
\* its status from SENT to DELIVERED, OPENED, BOUNCED or SPAM, while CANCELED
\* and ERROR attempts and freshly made duplicates (which have no dispatch
\* time) never count, so repeated suppressed attempts do not extend the
\* cooldown
C32_CountByDispatchTime ==
    /\ [](\A m \in DOMAIN msgs : \A e \in Candidates :
            /\ (/\ msgs[m].status \in SentStatuses
                /\ now - msgs[m].sent_at < CoolPeriod
                /\ \A scope \in Scopes : SameOn(scope, msgs[m], e))
               => Counts(m, e)
            /\ msgs[m].status \in {"canceled", "error", "new", "ready"}
               => (msgs[m].sent_at = NoTime /\ ~Counts(m, e)))
    /\ [][(msgs' # msgs /\ last'.op = "queue" /\ last'.ret = "False")
            => Verdicts(msgs', now') = Verdicts(msgs, now)]_vars
    /\ [][(msgs' # msgs /\ last'.op = "duplicate" /\ last'.raised = "none")
            => /\ Len(msgs') = Len(msgs) + 1
               /\ msgs'[Len(msgs')].sent_at = NoTime
               /\ Verdicts(msgs', now') = Verdicts(msgs, now)]_vars

\* a message was sent and an event made it OPENED; a second one like it (a
\* new object, or its duplicate) was queued within the period and canceled:
\* the first still counts, the second does not
C32_Witness ==
    /\ Len(msgs) = 2
    /\ msgs[1].status = "opened" /\ Counts(1, msgs[2])
    /\ msgs[2].status = "canceled" /\ ~Counts(2, msgs[1])
    /\ atts = <<>>
    /\ last = Result("queue", 2, "none", "False", 0)

(***************************************************************************)
(* Properties of events that arrive during a send.                         *)
(***************************************************************************)
\* a send holds identifier X in memory: the transport returned it and the
\* persist that sets SENT has not run; no other message holds X
InGap(X) ==
    \E p \in Workers :
        /\ work[p].pc = "record"
        /\ work[p].obj.message_id = X
        /\ \A o \in DOMAIN msgs : o # work[p].m => msgs[o].message_id # X

\* C33: the provider message identifier becomes visible to webhook
\* processing only with the persist that sets SENT: an event for identifier
\* X that is processed after the transport returned X but before send
\* persisted it finds no message, ends PROCESSED and unlinked, and its
\* status is never applied to the message afterwards
C33_IdentifierVisibleWithSent ==
    /\ [][\A w \in DOMAIN hooks :
            (/\ hooks[w].status = "new"
             /\ "MessageID" \in DOMAIN hooks[w].body
             /\ InGap(hooks[w].body["MessageID"])
             /\ ProcessNow(w))
            => /\ hooks'[w].status = "processed"
               /\ hooks'[w].email_message = NoMsg
               /\ msgs' = msgs]_vars
    /\ [][\A w \in DOMAIN hooks :
            (/\ hooks[w].status # "new"
             /\ hooks[w].email_message = NoMsg)
            => /\ hooks'[w].email_message = NoMsg
               /\ ProcessNow(w) => msgs' = msgs]_vars
    /\ [](\A m \in DOMAIN msgs :
            msgs[m].status \in SentStatuses \ {"sent"}
                => \E w \in DOMAIN hooks :
                      /\ hooks[w].email_message = m
                      /\ TypeHasStatus(hooks[w].type))

\* the Delivery event of a message was processed before its send persisted
\* the identifier: the send has returned, the message is SENT with that
\* identifier, the event is PROCESSED and linked to no message
C33_Witness ==
    /\ \A p \in Workers : work[p].pc = "idle"
    /\ \E m \in DOMAIN msgs : \E w \in DOMAIN hooks :
          /\ msgs[m].status = "sent"
          /\ hooks[w].body["MessageID"] = msgs[m].message_id
          /\ hooks[w].type = "Delivery"
          /\ hooks[w].status = "processed"
          /\ hooks[w].email_message = NoMsg

====
